---------------------------- MODULE Spec2Model ----------------------------
(***************************************************************************)
(* A model of the egismoc match-on-chip fingerprint driver                 *)
(* (libfprint/drivers/egismoc/egismoc.c).                                  *)
(*                                                                         *)
(* Two specifications share this module:                                   *)
(*   CodecSpec  the frame codec (egismoc_get_check_bytes,                  *)
(*              egismoc_compose_cmd) applied to bounded command bodies;    *)
(*   Spec       the driver: the public entry points, the operation-level   *)
(*              state machines, the SEND/RECEIVE command machine, the      *)
(*              finger wait and the transfer completions that drive them.  *)
(*                                                                         *)
(* Bytes are naturals 0..255; a C buffer is a sequence, so C index i is    *)
(* sequence index i + 1.  The host is little-endian (x86), which decides   *)
(* the byte order egismoc_get_check_bytes reads check_short in.            *)
(***************************************************************************)
EXTENDS Naturals, Integers, Sequences, FiniteSets, TLC

VARIABLES
  (* frame codec *)
  body,                  \* the command body handed to egismoc_compose_cmd
  frame,                 \* the composed command (<<>> before composing)
  (* FpiDeviceEgisMoc *)
  task_ssm,              \* self->task_ssm: "NULL" or "set" (points at task)
  cmd_ssm,               \* self->cmd_ssm: "NULL" or "set"
  cmd_transfer,          \* self->cmd_transfer: "NULL" or "set"
  enrolled_ids,          \* self->enrolled_ids: [ptr, ids]
  enrolled_num,          \* self->enrolled_num
  interrupt_cancellable, \* "NULL", "untripped", "tripped"
  (* state machine objects *)
  task,                  \* the FpiSsm last stored in self->task_ssm
  stage,                 \* EnrollPrint.stage of the enroll machine
  xfer,                  \* the USB transfer in flight
  orphans,               \* task machines started, never completed, unreferenced
  (* device and framework *)
  iface,                 \* USB interface 0/0 is claimed
  dev_open,              \* the framework holds the device open
  action,                \* the framework's current action
  action_data,           \* the identify gallery / the verify reference print
  crashed,               \* the process faulted on an invalid pointer
  (* observation of the current operation *)
  op,                    \* the operation last started
  n_complete,            \* completion reports made for it
  result,                \* the error kind of the last completion report
  sent,                  \* names of the commands submitted during it
  refreshes,             \* the counts its list replies were parsed to
  last,                  \* the last reply or error given to a continuation
  cmd_active,            \* command machines started and not completed
  out,                   \* what it gave the device and the framework
  obs                    \* what the last step did: [cmd_peak, stale, mismatch,
                         \* cb, cmd, progress, ctrl, retry, finger,
                         \* calls]

codec_vars == <<body, frame>>
driver_vars == <<task_ssm, cmd_ssm, cmd_transfer, enrolled_ids, enrolled_num,
                 interrupt_cancellable, task, stage, xfer, orphans, iface,
                 dev_open, action, action_data, crashed, op,
          n_complete, result, sent,
                 refreshes, last, cmd_active, out, obs>>
vars == <<body, frame, task_ssm, cmd_ssm, cmd_transfer, enrolled_ids,
          enrolled_num, interrupt_cancellable, task, stage, xfer, orphans,
          iface, dev_open, action, action_data, crashed, op,
          n_complete, result, sent,
          refreshes, last, cmd_active, out, obs>>

---------------------------------------------------------------------------
(* Bounds of the model *)

\* longest command body given to the codec
MaxBodyLen == 3
\* largest number of prints a list reply reports
MaxPrints == 10
\* orphaned task machines counted before the count saturates
MaxOrphans == 1
\* largest registry the check body is built for
MaxRegistry == 15

\* byte values the codec bodies are drawn from: 0x71 0x64 makes the word sum
\* of the frame a multiple of 0xFFFF, 0xFF 0xFF carries past 16 bits
ByteSamples == {0, 100, 113, 255}

---------------------------------------------------------------------------
(* Constants of egismoc.h *)

EGISMOC_CHECK_BYTES_LENGTH == 2
EGISMOC_FINGERPRINT_DATA_SIZE == 32
EGISMOC_MAX_ENROLL_NUM == 10
EGISMOC_ENROLL_TIMES == 10
egismoc_read_prefix_len == 6
egismoc_write_prefix == <<69, 71, 73, 83, 0, 0, 0, 1>>
cmd_delete_prefix == <<80, 24, 4, 0, 0>>
cmd_check_prefix == <<80, 23, 3, 0, 0>>
cmd_check_suffix == <<0, 64>>
rsp_fw_version_suffix_len == 2
EGISMOC_CMD_CHECK_SEPARATOR_LENGTH == 32
cmd_new_print_prefix == <<0, 0, 0, 39, 80, 22, 3, 0, 0, 0, 2, 128>>
EGISMOC_IDENTIFY_RESPONSE_PRINT_ID_OFFSET == 46
egismoc_write_prefix_len == Len(egismoc_write_prefix)

---------------------------------------------------------------------------
(* Frame codec *)

Min(a, b) == IF a < b THEN a ELSE b
Max(a, b) == IF a > b THEN a ELSE b

\* value_bigendian_shorts[s] of egismoc_get_check_bytes: the word at C
\* offset 2s, low byte first, the missing high byte of an odd tail zero
value_bigendian_shorts(value, s) ==
  LET i == 2 * s
  IN  IF i + 1 < Len(value)
        THEN ((value[i + 2] * 256) + value[i + 1]) % 65536
        ELSE value[i + 1] % 65536

\* sum_shorts after the first n words; an unsigned long has at least 32
\* bits, which fewer than 65536 words of 16 bits cannot wrap
\* the loop's additions over the words lo..hi-1, grouped in halves
RECURSIVE sum_shorts_from(_, _, _)
sum_shorts_from(value, lo, hi) ==
  IF hi <= lo THEN 0
  ELSE IF hi = lo + 1 THEN value_bigendian_shorts(value, lo)
  ELSE LET mid == (lo + hi) \div 2
       IN  sum_shorts_from(value, lo, mid) + sum_shorts_from(value, mid, hi)

sum_shorts(value, n) == sum_shorts_from(value, 0, n)

\* check_short = 0xffff - (sum_shorts % 0xffff), an unsigned short
check_short_sub_mod65536(value) ==
  (65535 - (sum_shorts(value, (Len(value) + 1) \div 2) % 65536)) % 65536

check_short(value) ==
  (65535 - (sum_shorts(value, (Len(value) + 1) \div 2) % 65535)) % 65536

\* check_short_split: the bytes of check_short in memory order
check_short_split_be(cs) == <<cs \div 256, cs % 256>>

check_short_split(cs) == <<cs % 256, cs \div 256>>

egismoc_get_check_bytes(value, check_bytes_length) ==
  [i \in 1..check_bytes_length |-> check_short_split(check_short(value))[i]]

\* the payload copied two bytes early, over the check-byte slots
egismoc_compose_cmd_early(cmd) ==
  LET zeroed == egismoc_write_prefix \o cmd \o <<0, 0>>
      check_bytes == egismoc_get_check_bytes(zeroed, EGISMOC_CHECK_BYTES_LENGTH)
  IN  [i \in 1..Len(zeroed) |->
         IF i > egismoc_write_prefix_len
            /\ i <= egismoc_write_prefix_len + EGISMOC_CHECK_BYTES_LENGTH
           THEN check_bytes[i - egismoc_write_prefix_len]
           ELSE zeroed[i]]

\* E G I S 00 00 00 01 {cb1} {cb2} {payload}
egismoc_compose_cmd(cmd) ==
  LET total_length == egismoc_write_prefix_len + EGISMOC_CHECK_BYTES_LENGTH
                        + Len(cmd)
      zeroed == egismoc_write_prefix
                  \o [i \in 1..EGISMOC_CHECK_BYTES_LENGTH |-> 0] \o cmd
      check_bytes == egismoc_get_check_bytes(zeroed, EGISMOC_CHECK_BYTES_LENGTH)
  IN  [i \in 1..total_length |->
         IF i > egismoc_write_prefix_len
            /\ i <= egismoc_write_prefix_len + EGISMOC_CHECK_BYTES_LENGTH
           THEN check_bytes[i - egismoc_write_prefix_len]
           ELSE zeroed[i]]

---------------------------------------------------------------------------
(* The driver state as one record, so that a handler and everything it     *)
(* calls is one function from state to state                               *)

\* no enroll progress reported
NoProgress == [kind |-> "none", stage |-> 0]
\* a retry error: its FpDeviceRetry kind and which message it carries
NoRetry == [kind |-> "none", msg |-> "none"]
\* the setup of a control-IN transfer: request type, request, value, index
\* and length
NoCtrl == [type |-> "none", request |-> 0, value |-> 0, idx |-> 0,
           length |-> 0]

St ==
  [task_ssm |-> task_ssm, cmd_ssm |-> cmd_ssm, cmd_transfer |-> cmd_transfer,
   enrolled_ids |-> enrolled_ids, enrolled_num |-> enrolled_num,
   interrupt_cancellable |-> interrupt_cancellable, task |-> task,
   stage |-> stage, xfer |-> xfer, orphans |-> orphans, iface |-> iface,
   dev_open |-> dev_open, action |-> action, action_data |-> action_data,
   crashed |-> crashed, op |-> op,
   n_complete |-> n_complete, result |-> result, sent |-> sent,
   refreshes |-> refreshes, last |-> last, cmd_active |-> cmd_active,
   out |-> out,
   obs |-> [cmd_peak |-> cmd_active, stale |-> FALSE, mismatch |-> FALSE,
            cb |-> "none", cmd |-> "none", progress |-> NoProgress,
            ctrl |-> NoCtrl, retry |-> NoRetry, finger |-> <<>>, calls |-> 0]]

\* The framework delivers a completion report from an idle callback, after
\* the handler has returned.  An error object the handler has freed by then
\* is read through a dangling pointer: it may still read as it was, or not.
DeliveredAs(error) ==
  IF error = "freed_proto" THEN {"proto", "garbage"} ELSE {error}

Commit(s) ==
  /\ task_ssm' = s.task_ssm
  /\ cmd_ssm' = s.cmd_ssm
  /\ cmd_transfer' = s.cmd_transfer
  /\ enrolled_ids' = s.enrolled_ids
  /\ enrolled_num' = s.enrolled_num
  /\ interrupt_cancellable' = s.interrupt_cancellable
  /\ task' = s.task
  /\ stage' = s.stage
  /\ xfer' = s.xfer
  /\ orphans' = s.orphans
  /\ iface' = s.iface
  /\ dev_open' = s.dev_open
  /\ action' = s.action
  /\ action_data' = s.action_data
  /\ crashed' = s.crashed
  /\ op' = s.op
  /\ n_complete' = s.n_complete
  /\ result' \in DeliveredAs(s.result)
  /\ sent' = s.sent
  /\ refreshes' = s.refreshes
  /\ last' = s.last
  /\ cmd_active' = s.cmd_active
  /\ out' = s.out
  /\ obs' = s.obs

NoXfer == [kind |-> "none", callback |-> "none", cancelled |-> FALSE]
\* an FpPrint as the driver sees it: the user-id the framework generates
\* for it, the byte that follows the user-id string in memory, its fpi-data
NoFpiData == [tag |-> "none", bytes |-> <<>>]
NoPrint == [user_id |-> <<>>, junk |-> 0, fpi_data |-> NoFpiData]
NoTask == [handler |-> "none", cur_state |-> 0, completed |-> TRUE,
           data |-> "none", fresh |-> FALSE, print |-> NoPrint]
\* nothing sent as a new print, no print reported
NoReport == [kind |-> "none", result |-> "none", match |-> 0,
             print |-> NoFpiData]
NoOut == [new_print |-> <<>>, print |-> NoFpiData, n_report |-> 0,
          partial |-> 0, bulk_cancel |-> FALSE,
          report |-> NoReport, delete |-> <<>>, check |-> <<>>]
NoActionData == [gallery |-> <<>>, print |-> NoPrint]
NoIds == [ptr |-> "NULL", ids |-> <<>>]
NoLast == [cb |-> "none", error |-> "none", len |-> 0, pre |-> {}, suf |-> {},
           ids |-> <<>>]
NoReply == [len |-> 0, pre |-> {}, suf |-> {}, ids |-> <<>>]

\* a dereference of an invalid pointer: the process faults
Crash(s) == [s EXCEPT !.crashed = TRUE]

---------------------------------------------------------------------------
(* State enums of egismoc.h, in the order the handlers switch on them *)

LIST_STATES == <<"LIST_GET_ENROLLED_IDS", "LIST_RETURN_ENROLLED_PRINTS">>
DELETE_STATES == <<"DELETE_GET_ENROLLED_IDS", "DELETE_DELETE">>
CLEAR_STORAGE_STATES ==
  <<"CLEAR_STORAGE_GET_ENROLLED_IDS_BEFORE", "CLEAR_STORAGE_CLEAR",
    "CLEAR_STORAGE_GET_ENROLLED_IDS_AFTER", "CLEAR_STORAGE_COMPLETE">>
ENROLL_STATES ==
  <<"ENROLL_GET_ENROLLED_IDS", "ENROLL_CHECK_ENROLLED_NUM",
    "ENROLL_SENSOR_RESET", "ENROLL_SENSOR_ENROLL", "ENROLL_WAIT_FINGER",
    "ENROLL_SENSOR_CHECK", "ENROLL_CHECK", "ENROLL_START",
    "ENROLL_CAPTURE_SENSOR_RESET", "ENROLL_CAPTURE_SENSOR_START_CAPTURE",
    "ENROLL_CAPTURE_WAIT_FINGER", "ENROLL_CAPTURE_READ_RESPONSE",
    "ENROLL_COMMIT_START", "ENROLL_COMMIT", "ENROLL_COMMIT_SENSOR_RESET",
    "ENROLL_COMPLETE">>
IDENTIFY_STATES ==
  <<"IDENTIFY_GET_ENROLLED_IDS", "IDENTIFY_CHECK_ENROLLED_NUM",
    "IDENTIFY_SENSOR_RESET", "IDENTIFY_SENSOR_IDENTIFY",
    "IDENTIFY_WAIT_FINGER", "IDENTIFY_SENSOR_CHECK", "IDENTIFY_CHECK",
    "IDENTIFY_COMPLETE_SENSOR_RESET", "IDENTIFY_COMPLETE">>
DEV_INIT_STATES ==
  <<"DEV_INIT_CONTROL1", "DEV_INIT_CONTROL2", "DEV_INIT_CONTROL3",
    "DEV_INIT_CONTROL4", "DEV_INIT_CONTROL5", "DEV_GET_FW_VERSION">>

StateNames(handler) ==
  CASE handler = "egismoc_list_run_state" -> LIST_STATES
    [] handler = "egismoc_delete_run_state" -> DELETE_STATES
    [] handler = "egismoc_clear_storage_run_state" -> CLEAR_STORAGE_STATES
    [] handler = "egismoc_enroll_run_state" -> ENROLL_STATES
    [] handler = "egismoc_identify_run_state" -> IDENTIFY_STATES
    [] handler = "egismoc_dev_init_handler" -> DEV_INIT_STATES
    [] OTHER -> <<>>

\* the enum value of a state name
StateIndex(handler, name) ==
  CHOOSE i \in 0..(Len(StateNames(handler)) - 1) :
    StateNames(handler)[i + 1] = name

fpi_ssm_get_cur_state(s) == StateNames(s.task.handler)[s.task.cur_state + 1]

---------------------------------------------------------------------------
(* The framework: completion reports (fpi-device.c)                        *)

\* fpi_device_*_complete: the report is queued for the caller; the action
\* ends when the queued report is delivered
fpi_device_complete(s, error) ==
  IF s.crashed THEN s
  ELSE [s EXCEPT !.n_complete = Min(@ + 1, 3), !.result = error,
                 !.action = "none"]

fpi_device_open_complete(s, error) ==
  [fpi_device_complete(s, error) EXCEPT !.dev_open = (error = "none")]

fpi_device_close_complete(s, error) ==
  [fpi_device_complete(s, error) EXCEPT !.dev_open = FALSE]

\* fpi_device_action_error: completes the current action with the error
fpi_device_action_error(s, error) == fpi_device_complete(s, error)

---------------------------------------------------------------------------
(* Completion of the operation-level machines                              *)

egismoc_task_ssm_done(s, error) ==
  LET s1 == [s EXCEPT !.task_ssm = "NULL", !.enrolled_ids = NoIds]
  IN  IF error # "none" THEN fpi_device_action_error(s1, error) ELSE s1

\* the interface kept on error
egismoc_dev_init_done_keep(s, error) == fpi_device_open_complete(s, error)

egismoc_dev_init_done(s, error) ==
  LET s1 == IF error # "none" THEN [s EXCEPT !.iface = FALSE] ELSE s
  IN  fpi_device_open_complete(s1, error)

\* fpi_ssm_mark_completed / fpi_ssm_mark_failed on a task machine: the
\* machine is marked completed, its callback runs, the machine is freed
fpi_ssm_task_callback(s, error) ==
  IF s.crashed THEN s
  ELSE IF s.task.completed THEN Crash(s)
  ELSE LET s1 == [s EXCEPT !.task.completed = TRUE]
       IN  IF s.task.handler = "egismoc_dev_init_handler"
             THEN egismoc_dev_init_done(s1, error)
             ELSE egismoc_task_ssm_done(s1, error)

fpi_ssm_mark_completed(s) == fpi_ssm_task_callback(s, "none")

fpi_ssm_mark_failed(s, error) == fpi_ssm_task_callback(s, error)

\* fpi_ssm_new stored in self->task_ssm; a machine still running that the
\* pointer leaves behind stays allocated and started
fpi_ssm_new(s, handler, data) ==
  [s EXCEPT !.orphans = IF s.task_ssm = "set" /\ ~s.task.completed
                          THEN Min(@ + 1, MaxOrphans) ELSE @,
            !.task_ssm = "set",
            !.task = [handler |-> handler, cur_state |-> 0,
                      completed |-> FALSE, data |-> data, fresh |-> TRUE,
                      print |-> NoPrint]]

RECURSIVE fpi_ssm_run(_)

fpi_ssm_start(s) == fpi_ssm_run([s EXCEPT !.task.cur_state = 0])

fpi_ssm_next_state(s) ==
  IF s.crashed THEN s
  ELSE IF s.task.completed THEN Crash(s)
  ELSE IF s.task.cur_state + 1 = Len(StateNames(s.task.handler))
    THEN fpi_ssm_mark_completed([s EXCEPT !.task.cur_state = @ + 1])
    ELSE fpi_ssm_run([s EXCEPT !.task.cur_state = @ + 1])

fpi_ssm_jump_to_state(s, name) ==
  IF s.crashed THEN s
  ELSE IF s.task.completed THEN Crash(s)
  ELSE fpi_ssm_run([s EXCEPT !.task.cur_state =
                               StateIndex(s.task.handler, name)])

\* the same calls made through self->task_ssm: a NULL machine is refused
self_task_ssm_next_state(s) ==
  IF s.task_ssm = "NULL" THEN s ELSE fpi_ssm_next_state(s)

self_task_ssm_mark_failed(s, error) ==
  IF s.task_ssm = "NULL" THEN s ELSE fpi_ssm_mark_failed(s, error)

self_task_ssm_jump_to_state(s, name) ==
  IF s.task_ssm = "NULL" THEN s ELSE fpi_ssm_jump_to_state(s, name)

---------------------------------------------------------------------------
(* Transfer engine: one SEND/RECEIVE machine per command                   *)

\* the interrupt transfer is submitted with self->interrupt_cancellable,
\* every other transfer with no cancellable
fpi_usb_transfer_submit(s, kind, callback) ==
  [s EXCEPT !.xfer = [kind |-> kind, callback |-> callback,
                      cancelled |-> (kind = "intr"
                                     /\ s.interrupt_cancellable = "tripped")]]

egismoc_cmd_run_state(s, cur_state, callback) ==
  IF cur_state = "CMD_SEND" /\ s.cmd_transfer # "NULL"
    THEN fpi_usb_transfer_submit([s EXCEPT !.cmd_transfer = "NULL"],
                                 "send", callback)
    ELSE fpi_usb_transfer_submit(s, "recv", callback)

egismoc_get_cmd(s, cmd, callback) ==
  IF s.crashed THEN s
  ELSE egismoc_cmd_run_state(
         [s EXCEPT !.cmd_ssm = "set", !.cmd_transfer = "set",
                   !.cmd_active = @ + 1,
                   !.obs.cmd_peak = Max(@, s.cmd_active + 1),
                   !.sent = @ \cup {cmd}, !.obs.cmd = cmd],
         "CMD_SEND", callback)

\* the finger statuses reported during a step, in order
fpi_device_report_finger_status(s, status) ==
  [s EXCEPT !.obs.finger = Append(@, status)]

\* the wait posted without a status report
egismoc_wait_finger_on_sensor_silent(s) ==
  fpi_usb_transfer_submit(s, "intr", "egismoc_finger_on_sensor_cb")

egismoc_wait_finger_on_sensor(s) ==
  fpi_usb_transfer_submit(
    fpi_device_report_finger_status(s, "FP_FINGER_STATUS_NEEDED"),
    "intr", "egismoc_finger_on_sensor_cb")

\* the error not looked at
egismoc_finger_on_sensor_cb_ignore_error(s, error) ==
  fpi_ssm_next_state(
    fpi_device_report_finger_status(s, "FP_FINGER_STATUS_PRESENT"))

egismoc_finger_on_sensor_cb(s, error) ==
  LET s1 == fpi_device_report_finger_status(s, "FP_FINGER_STATUS_PRESENT")
  IN  IF error # "none" THEN fpi_ssm_mark_failed(s1, error)
      ELSE fpi_ssm_next_state(s1)

egismoc_task_ssm_next_state_cb(s, reply, error) ==
  IF error # "none" THEN self_task_ssm_mark_failed(s, error)
  ELSE self_task_ssm_next_state(s)

---------------------------------------------------------------------------
(* Replies and response classification                                     *)

\* A reply is [len, pre, suf, ids]: its length, the prefix markers that
\* compare equal at offset read_prefix_len + 2, the suffix markers that
\* compare equal at its end, and the 32-byte ids it carries from offset 14.
BufferByte(reply, i) ==
  IF i >= 14 /\ i < 14 + (EGISMOC_FINGERPRINT_DATA_SIZE * Len(reply.ids))
    THEN reply.ids[((i - 14) \div EGISMOC_FINGERPRINT_DATA_SIZE) + 1]
                  [((i - 14) % EGISMOC_FINGERPRINT_DATA_SIZE) + 1]
    ELSE 0

egismoc_validate_response_prefix(reply, valid_prefix) ==
  valid_prefix \in reply.pre

egismoc_validate_response_suffix(reply, valid_suffix) ==
  valid_suffix \in reply.suf

---------------------------------------------------------------------------
(* Prints                                                                  *)

\* the k-th id stored on the device
PrintId(k) ==
  [j \in 1..EGISMOC_FINGERPRINT_DATA_SIZE |-> ((k * 37) + j) % 256]

\* fpi-data: the tagged wrapper "(@ay)" over the 32-byte id
egismoc_set_print_data(print, device_print_id) ==
  [print EXCEPT !.fpi_data = [tag |-> "(@ay)", bytes |-> device_print_id]]

---------------------------------------------------------------------------
(* Enrolled-ID registry                                                    *)

\* a read of enrolled_num or of the registry by a decision or a builder
ReadEnrolled(s) ==
  [s EXCEPT !.obs.stale = @ \/ (s.refreshes = <<>>),
            !.obs.mismatch = @ \/ (s.enrolled_num # Len(s.enrolled_ids.ids))]

\* the number of prints list_cb derives from the reply length
list_cb_enrolled_num_floor16(length_in) ==
  IF length_in < 16 THEN 0
  ELSE (length_in - 16) \div EGISMOC_FINGERPRINT_DATA_SIZE

list_cb_enrolled_num(length_in) ==
  IF length_in < 16 + EGISMOC_FINGERPRINT_DATA_SIZE THEN 0
  ELSE (length_in - 16) \div EGISMOC_FINGERPRINT_DATA_SIZE

\* the ids read from offset 16, past the two bytes that follow the framing
list_cb_print_id_at16(reply, print_num) ==
  [j \in 1..EGISMOC_FINGERPRINT_DATA_SIZE |->
     BufferByte(reply,
                16 + (print_num * EGISMOC_FINGERPRINT_DATA_SIZE) + (j - 1))]

list_cb_print_id(reply, print_num) ==
  [j \in 1..EGISMOC_FINGERPRINT_DATA_SIZE |->
     BufferByte(reply,
                14 + (print_num * EGISMOC_FINGERPRINT_DATA_SIZE) + (j - 1))]

egismoc_list_cb(s, reply, error) ==
  IF error # "none" THEN self_task_ssm_mark_failed(s, error)
  ELSE
    LET n == list_cb_enrolled_num(reply.len)
        added == [k \in 1..n |-> list_cb_print_id(reply, k - 1)]
        s1 == [s EXCEPT !.enrolled_num = n,
                        !.enrolled_ids.ids =
                           IF s.enrolled_ids.ptr = "NULL" THEN @
                           ELSE @ \o added,
                        !.refreshes = Append(@, n)]
    IN  self_task_ssm_next_state(s1)

egismoc_fill_enrolled_ids(s) ==
  egismoc_get_cmd([s EXCEPT !.enrolled_ids = [ptr |-> "set", ids |-> <<>>]],
                  "cmd_list", "egismoc_list_cb")

\* reads ids 0 .. enrolled_num - 1 of the registry
egismoc_get_enrolled_prints(s) ==
  LET s1 == ReadEnrolled(s)
  IN  IF s.enrolled_num > Len(s.enrolled_ids.ids) THEN Crash(s1) ELSE s1

---------------------------------------------------------------------------
(* List *)

egismoc_list_run_state(s) ==
  IF fpi_ssm_get_cur_state(s) = "LIST_GET_ENROLLED_IDS"
    THEN egismoc_fill_enrolled_ids(s)
    ELSE fpi_ssm_next_state(
           fpi_device_complete(egismoc_get_enrolled_prints(s), "none"))

egismoc_list(s) ==
  fpi_ssm_start(fpi_ssm_new(s, "egismoc_list_run_state", "none"))

---------------------------------------------------------------------------
(* Delete and clear-storage *)

\* memset of one byte: the value is converted to unsigned char
memset_byte(c) == c % 256

\* the size bytes split one count early, as the check builder splits them
delete_size_bytes_split6(num_to_delete, plus) ==
  IF num_to_delete > 6
    THEN <<1, memset_byte(((num_to_delete - 7) * 32) + plus)>>
    ELSE <<0, memset_byte((num_to_delete * 32) + plus)>>

\* the two size bytes of the delete body, for an added constant
delete_size_bytes(num_to_delete, plus) ==
  IF num_to_delete > 7
    THEN <<1, memset_byte(((num_to_delete - 8) * 32) + plus)>>
    ELSE <<0, memset_byte((num_to_delete * 32) + plus)>>

RECURSIVE concat_ids(_, _, _)
concat_ids(ids, lo, hi) ==
  IF hi < lo THEN <<>>
  ELSE IF hi = lo THEN ids[lo]
  ELSE LET mid == (lo + hi) \div 2
       IN  concat_ids(ids, lo, mid) \o concat_ids(ids, mid + 1, hi)

\* the command built, or NULL when the print's fpi-data has the wrong
\* shape; delete_print = NoPrint stands for a NULL print (clear-storage)
egismoc_get_delete_cmd(s, delete_print) ==
  LET num_to_delete == IF delete_print = NoPrint THEN s.enrolled_num ELSE 1
      head == <<0, 0>> \o delete_size_bytes(num_to_delete, 7)
                \o cmd_delete_prefix \o delete_size_bytes(num_to_delete, 0)
  IN  IF delete_print = NoPrint
        THEN LET s1 == ReadEnrolled(s)
             IN  IF s.enrolled_num > Len(s.enrolled_ids.ids)
                   THEN [s |-> Crash(s1), null |-> FALSE, cmd |-> <<>>,
                         num_to_delete |-> num_to_delete]
                   ELSE [s |-> s1, null |-> FALSE,
                         cmd |-> head \o concat_ids(s.enrolled_ids.ids, 1,
                                                    s.enrolled_num),
                         num_to_delete |-> num_to_delete]
      ELSE IF delete_print.fpi_data.tag # "(@ay)"
        THEN [s |-> fpi_device_complete(s, "data_invalid"),
              null |-> TRUE, cmd |-> <<>>, num_to_delete |-> 1]
      ELSE [s |-> s, null |-> FALSE,
            cmd |-> head \o delete_print.fpi_data.bytes,
            num_to_delete |-> 1]

\* the commented-out fpi_ssm_mark_failed calls put back
egismoc_clear_storage_cb_mark_failed(s, reply, error) ==
  IF error # "none"
    THEN self_task_ssm_mark_failed(fpi_device_complete(s, error), error)
  ELSE IF egismoc_validate_response_prefix(reply, "rsp_delete_success_prefix")
    THEN self_task_ssm_next_state(s)
  ELSE self_task_ssm_mark_failed(fpi_device_complete(s, "proto"), "proto")

egismoc_clear_storage_cb(s, reply, error) ==
  IF error # "none" THEN fpi_device_complete(s, error)
  ELSE IF egismoc_validate_response_prefix(reply, "rsp_delete_success_prefix")
    THEN self_task_ssm_next_state(s)
  ELSE fpi_device_complete(s, "proto")

CLEAR_STORAGE_CLEAR(s) ==
  LET cmd == egismoc_get_delete_cmd(s, NoPrint)
  IN  IF cmd.null THEN Crash(cmd.s)
      ELSE egismoc_get_cmd(
             [cmd.s EXCEPT !.out.delete = egismoc_compose_cmd(cmd.cmd)],
             "cmd_delete", "egismoc_clear_storage_cb")

\* the error is handed to fpi_device_clear_storage_complete, which keeps
\* the pointer, and is then freed by the g_autoptr of the handler
CLEAR_STORAGE_COMPLETE(s) ==
  LET s1 == ReadEnrolled(s)
  IN  IF s.enrolled_num = 0
        THEN fpi_ssm_mark_completed(fpi_device_complete(s1, "none"))
        ELSE fpi_device_complete(s1, "freed_proto")

egismoc_clear_storage_run_state(s) ==
  CASE fpi_ssm_get_cur_state(s) = "CLEAR_STORAGE_GET_ENROLLED_IDS_BEFORE" ->
         egismoc_fill_enrolled_ids(s)
    [] fpi_ssm_get_cur_state(s) = "CLEAR_STORAGE_CLEAR" ->
         CLEAR_STORAGE_CLEAR(s)
    [] fpi_ssm_get_cur_state(s) = "CLEAR_STORAGE_GET_ENROLLED_IDS_AFTER" ->
         egismoc_fill_enrolled_ids(s)
    [] fpi_ssm_get_cur_state(s) = "CLEAR_STORAGE_COMPLETE" ->
         CLEAR_STORAGE_COMPLETE(s)

egismoc_clear_storage(s) ==
  LET s1 == ReadEnrolled(s)
  IN  IF s.enrolled_num = 0
        THEN fpi_device_complete(s1, "data_not_found")
        ELSE fpi_ssm_start(
               fpi_ssm_new(s1, "egismoc_clear_storage_run_state", "none"))

\* the commented-out fpi_ssm_mark_failed calls put back
egismoc_delete_cb_mark_failed(s, reply, error) ==
  IF error # "none"
    THEN self_task_ssm_mark_failed(fpi_device_complete(s, error), error)
  ELSE IF egismoc_validate_response_prefix(reply, "rsp_delete_success_prefix")
    THEN self_task_ssm_next_state(fpi_device_complete(s, "none"))
  ELSE self_task_ssm_mark_failed(fpi_device_complete(s, "proto"), "proto")

\* the reply's prefix not looked at
egismoc_delete_cb_any_reply(s, reply, error) ==
  IF error # "none" THEN fpi_device_complete(s, error)
  ELSE self_task_ssm_next_state(fpi_device_complete(s, "none"))

egismoc_delete_cb(s, reply, error) ==
  IF error # "none" THEN fpi_device_complete(s, error)
  ELSE IF egismoc_validate_response_prefix(reply, "rsp_delete_success_prefix")
    THEN self_task_ssm_next_state(fpi_device_complete(s, "none"))
  ELSE fpi_device_complete(s, "proto")

\* cmd->cmd read through the NULL that egismoc_get_delete_cmd returned
DELETE_DELETE(s) ==
  LET cmd == egismoc_get_delete_cmd(s, s.task.print)
  IN  IF cmd.null THEN Crash(cmd.s)
      ELSE egismoc_get_cmd(
             [cmd.s EXCEPT !.out.delete = egismoc_compose_cmd(cmd.cmd)],
             "cmd_delete", "egismoc_delete_cb")

egismoc_delete_run_state(s) ==
  IF fpi_ssm_get_cur_state(s) = "DELETE_GET_ENROLLED_IDS"
    THEN egismoc_fill_enrolled_ids(s)
    ELSE DELETE_DELETE(s)

egismoc_delete(s, delete_print) ==
  fpi_ssm_start(
    [fpi_ssm_new(s, "egismoc_delete_run_state", "none")
       EXCEPT !.task.print = delete_print])

---------------------------------------------------------------------------
(* Check command, shared by enroll and identify/verify *)

\* the size bytes split one count late, as the delete builder splits them
check_size_bytes_split7(num, plus) ==
  IF num > 7
    THEN <<1, memset_byte(((num - 7) * 32) + plus)>>
    ELSE <<0, memset_byte(((num + 1) * 32) + plus)>>

\* the two size bytes of the check body, for an added constant
check_size_bytes(num, plus) ==
  IF num > 6
    THEN <<1, memset_byte(((num - 7) * 32) + plus)>>
    ELSE <<0, memset_byte(((num + 1) * 32) + plus)>>

\* the zero-filled separator
check_separator == [j \in 1..EGISMOC_CMD_CHECK_SEPARATOR_LENGTH |-> 0]

\* the separator slot left out of the buffer
check_cmd_body_no_separator(ids, num) ==
  <<0, 0>> \o check_size_bytes(num, 9) \o cmd_check_prefix
    \o check_size_bytes(num, 0)
    \o concat_ids(ids, 1, num) \o cmd_check_suffix

\* result of egismoc_get_check_cmd for a registry that holds num
\* ids: the zero-filled buffer after its memset and memcpy calls
check_cmd_body(ids, num) ==
  <<0, 0>> \o check_size_bytes(num, 9) \o cmd_check_prefix
    \o check_size_bytes(num, 0) \o check_separator
    \o concat_ids(ids, 1, num) \o cmd_check_suffix

\* reads enrolled_num and ids 0 .. enrolled_num - 1 of the registry
egismoc_get_check_cmd(s) ==
  LET s1 == ReadEnrolled(s)
  IN  IF s.enrolled_num > Len(s.enrolled_ids.ids)
        THEN [s |-> Crash(s1), cmd |-> <<>>]
        ELSE [s |-> s1,
              cmd |-> check_cmd_body(s.enrolled_ids.ids, s.enrolled_num)]

\* the check states of enroll and identify: build, compose, send
send_check_cmd(s, callback) ==
  LET cmd == egismoc_get_check_cmd(s)
  IN  egismoc_get_cmd(
        [cmd.s EXCEPT !.out.check = egismoc_compose_cmd(cmd.cmd)],
        "cmd_check", callback)

---------------------------------------------------------------------------
(* Enroll *)

\* a capture counted twice
egismoc_enroll_status_report_double(s, status, error) ==
  CASE status = "ENROLL_STATUS_RETRY" ->
         [s EXCEPT !.obs.progress = [kind |-> "retry", stage |-> s.stage],
                   !.obs.retry = error]
    [] status = "ENROLL_STATUS_PARTIAL_OK" ->
         [s EXCEPT !.stage = @ + 2, !.out.partial = @ + 1,
                   !.obs.progress = [kind |-> "ok", stage |-> s.stage + 2]]
    [] status = "ENROLL_STATUS_COMPLETE" ->
         fpi_device_complete([s EXCEPT !.out.print = s.task.print.fpi_data],
                             "none")
    [] OTHER ->
         fpi_device_complete(s, IF error # "none" THEN error ELSE "general")

egismoc_enroll_status_report(s, status, error) ==
  CASE status \in {"ENROLL_STATUS_DEVICE_FULL", "ENROLL_STATUS_DUPLICATE"} ->
         fpi_device_complete(s, error)
    [] status = "ENROLL_STATUS_RETRY" ->
         [s EXCEPT !.obs.progress = [kind |-> "retry", stage |-> s.stage],
                   !.obs.retry = error]
    [] status = "ENROLL_STATUS_PARTIAL_OK" ->
         [s EXCEPT !.stage = @ + 1, !.out.partial = @ + 1,
                   !.obs.progress = [kind |-> "ok", stage |-> s.stage + 1]]
    [] status = "ENROLL_STATUS_COMPLETE" ->
         fpi_device_complete([s EXCEPT !.out.print = s.task.print.fpi_data],
                             "none")
    [] OTHER ->
         fpi_device_complete(s, IF error # "none" THEN error ELSE "general")

\* a reply with the success prefix alone taken as a capture
egismoc_read_capture_cb_prefix_only(s, reply, error) ==
  IF error # "none" THEN self_task_ssm_mark_failed(s, error)
  ELSE
    LET s1 ==
          IF egismoc_validate_response_prefix(reply, "rsp_read_success_prefix")
            THEN egismoc_enroll_status_report(s, "ENROLL_STATUS_PARTIAL_OK",
                                              "none")
            ELSE egismoc_enroll_status_report(s, "ENROLL_STATUS_RETRY",
                                              NoRetry)
    IN  IF s1.stage = EGISMOC_ENROLL_TIMES
          THEN self_task_ssm_next_state(s1)
          ELSE self_task_ssm_jump_to_state(s1, "ENROLL_CAPTURE_SENSOR_RESET")

\* the retry error built for a reply that is not a capture
read_capture_retry(reply) ==
  IF egismoc_validate_response_prefix(reply, "rsp_read_offcenter_prefix")
     /\ egismoc_validate_response_suffix(reply, "rsp_read_offcenter_suffix")
    THEN [kind |-> "FP_DEVICE_RETRY_CENTER_FINGER", msg |-> "default"]
  ELSE IF egismoc_validate_response_prefix(reply, "rsp_read_dirty_prefix")
    THEN [kind |-> "FP_DEVICE_RETRY_REMOVE_FINGER", msg |-> "clean"]
  ELSE [kind |-> "FP_DEVICE_RETRY_REMOVE_FINGER", msg |-> "unknown"]

egismoc_read_capture_cb(s, reply, error) ==
  IF error # "none" THEN self_task_ssm_mark_failed(s, error)
  ELSE
    LET s1 ==
          IF egismoc_validate_response_prefix(reply, "rsp_read_success_prefix")
             /\ egismoc_validate_response_suffix(reply,
                                                 "rsp_read_success_suffix")
            THEN egismoc_enroll_status_report(s, "ENROLL_STATUS_PARTIAL_OK",
                                              "none")
            ELSE egismoc_enroll_status_report(s, "ENROLL_STATUS_RETRY",
                                              read_capture_retry(reply))
    IN  IF s1.stage = EGISMOC_ENROLL_TIMES
          THEN self_task_ssm_next_state(s1)
          ELSE self_task_ssm_jump_to_state(s1, "ENROLL_CAPTURE_SENSOR_RESET")

\* a duplicate only reported as progress, the machine moving on
egismoc_enroll_check_cb_continue(s, reply, error) ==
  IF error # "none" THEN self_task_ssm_mark_failed(s, error)
  ELSE self_task_ssm_next_state(s)

egismoc_enroll_check_cb(s, reply, error) ==
  IF error # "none" THEN self_task_ssm_mark_failed(s, error)
  ELSE IF egismoc_validate_response_prefix(
            reply, "rsp_check_not_yet_enrolled_prefix")
    THEN self_task_ssm_next_state(s)
  ELSE egismoc_enroll_status_report(s, "ENROLL_STATUS_DUPLICATE",
                                    "data_duplicate")

\* the bound compared with > in place of >=
ENROLL_CHECK_ENROLLED_NUM_gt(s) ==
  LET s1 == ReadEnrolled(s)
  IN  IF s.enrolled_num > EGISMOC_MAX_ENROLL_NUM
        THEN egismoc_enroll_status_report(s1, "ENROLL_STATUS_DEVICE_FULL",
                                          "data_full")
        ELSE fpi_ssm_next_state(s1)

ENROLL_CHECK_ENROLLED_NUM(s) ==
  LET s1 == ReadEnrolled(s)
  IN  IF s.enrolled_num >= EGISMOC_MAX_ENROLL_NUM
        THEN egismoc_enroll_status_report(s1, "ENROLL_STATUS_DEVICE_FULL",
                                          "data_full")
        ELSE fpi_ssm_next_state(s1)

\* memcpy of EGISMOC_FINGERPRINT_DATA_SIZE bytes from the generated
\* user-id string: the string, its terminator, then whatever follows it
enroll_device_print_id(print) ==
  [j \in 1..EGISMOC_FINGERPRINT_DATA_SIZE |->
     IF j <= Len(print.user_id) THEN print.user_id[j]
     ELSE IF j = Len(print.user_id) + 1 THEN 0
     ELSE print.junk]

\* the print's fpi-data set from another id than the one sent
ENROLL_COMMIT_other_id(s) ==
  LET device_print_id == enroll_device_print_id(s.task.print)
      cmd == cmd_new_print_prefix \o device_print_id
      s1 == [s EXCEPT !.task.print =
                         egismoc_set_print_data(@, PrintId(0)),
                      !.out.new_print = egismoc_compose_cmd(cmd)]
  IN  egismoc_get_cmd(s1, "cmd_new_print", "egismoc_task_ssm_next_state_cb")

ENROLL_COMMIT(s) ==
  LET device_print_id == enroll_device_print_id(s.task.print)
      cmd == cmd_new_print_prefix \o device_print_id
      s1 == [s EXCEPT !.task.print =
                         egismoc_set_print_data(@, device_print_id),
                      !.out.new_print = egismoc_compose_cmd(cmd)]
  IN  egismoc_get_cmd(s1, "cmd_new_print", "egismoc_task_ssm_next_state_cb")

egismoc_enroll_run_state(s) ==
  LET cur == fpi_ssm_get_cur_state(s)
  IN  CASE cur = "ENROLL_GET_ENROLLED_IDS" -> egismoc_fill_enrolled_ids(s)
        [] cur = "ENROLL_CHECK_ENROLLED_NUM" -> ENROLL_CHECK_ENROLLED_NUM(s)
        [] cur = "ENROLL_SENSOR_RESET" ->
             egismoc_get_cmd(s, "cmd_sensor_reset",
                             "egismoc_task_ssm_next_state_cb")
        [] cur = "ENROLL_SENSOR_ENROLL" ->
             egismoc_get_cmd(s, "cmd_sensor_enroll",
                             "egismoc_task_ssm_next_state_cb")
        [] cur = "ENROLL_WAIT_FINGER" -> egismoc_wait_finger_on_sensor(s)
        [] cur = "ENROLL_SENSOR_CHECK" ->
             egismoc_get_cmd(s, "cmd_sensor_check",
                             "egismoc_task_ssm_next_state_cb")
        [] cur = "ENROLL_CHECK" ->
             send_check_cmd(s, "egismoc_enroll_check_cb")
        [] cur = "ENROLL_START" ->
             egismoc_get_cmd(s, "cmd_enroll_starting",
                             "egismoc_task_ssm_next_state_cb")
        [] cur = "ENROLL_CAPTURE_SENSOR_RESET" ->
             egismoc_get_cmd(s, "cmd_sensor_reset",
                             "egismoc_task_ssm_next_state_cb")
        [] cur = "ENROLL_CAPTURE_SENSOR_START_CAPTURE" ->
             egismoc_get_cmd(s, "cmd_sensor_start_capture",
                             "egismoc_task_ssm_next_state_cb")
        [] cur = "ENROLL_CAPTURE_WAIT_FINGER" ->
             egismoc_wait_finger_on_sensor(s)
        [] cur = "ENROLL_CAPTURE_READ_RESPONSE" ->
             egismoc_get_cmd(s, "cmd_read_capture", "egismoc_read_capture_cb")
        [] cur = "ENROLL_COMMIT_START" ->
             egismoc_get_cmd(s, "cmd_commit_starting",
                             "egismoc_task_ssm_next_state_cb")
        [] cur = "ENROLL_COMMIT" -> ENROLL_COMMIT(s)
        [] cur = "ENROLL_COMMIT_SENSOR_RESET" ->
             egismoc_get_cmd(s, "cmd_sensor_reset",
                             "egismoc_task_ssm_next_state_cb")
        [] cur = "ENROLL_COMPLETE" ->
             fpi_ssm_next_state(
               egismoc_enroll_status_report(s, "ENROLL_STATUS_COMPLETE",
                                            "none"))

egismoc_enroll(s, enroll_print) ==
  fpi_ssm_start(
    [fpi_ssm_new([s EXCEPT !.stage = 0], "egismoc_enroll_run_state", "none")
       EXCEPT !.task.print = enroll_print])

---------------------------------------------------------------------------
(* Identify / verify *)

\* fp_print_equal on two raw prints of this device: equal fpi-data
fp_print_equal(a, b) == a.fpi_data = b.fpi_data

\* g_ptr_array_find_with_equal_func: the first equal entry, 0 when none
g_ptr_array_find(prints, print) ==
  IF \E i \in 1..Len(prints) : fp_print_equal(prints[i], print)
    THEN CHOOSE i \in 1..Len(prints) :
           /\ fp_print_equal(prints[i], print)
           /\ \A k \in 1..(i - 1) : ~fp_print_equal(prints[k], print)
    ELSE 0

fpi_device_identify_report(s, match, print) ==
  [s EXCEPT !.out.n_report = Min(@ + 1, 2),
            !.out.report = [kind |-> "identify",
                            result |-> IF match = 0 THEN "no_match"
                                       ELSE "match",
                            match |-> match, print |-> print.fpi_data]]

fpi_device_verify_report(s, match_result, print) ==
  [s EXCEPT !.out.n_report = Min(@ + 1, 2),
            !.out.report = [kind |-> "verify", result |-> match_result,
                            match |-> 0, print |-> print.fpi_data]]

\* the 32 bytes of the reply from a given offset
identify_device_print_id(reply, offset) ==
  [j \in 1..EGISMOC_FINGERPRINT_DATA_SIZE |->
     BufferByte(reply, offset + (j - 1))]

identify_check_match(s, reply, offset) ==
  LET print == egismoc_set_print_data(
                 NoPrint, identify_device_print_id(reply, offset))
  IN  IF s.action = "identify"
        THEN self_task_ssm_next_state(
               fpi_device_identify_report(
                 s, g_ptr_array_find(s.action_data.gallery, print), print))
        ELSE self_task_ssm_next_state(
               fpi_device_verify_report(
                 s,
                 IF fp_print_equal(s.action_data.print, print)
                   THEN "success" ELSE "fail",
                 print))

\* no result reported for a print the device did not identify
identify_check_notmatch_silent(s) == self_task_ssm_next_state(s)

identify_check_notmatch(s) ==
  IF s.action = "verify"
    THEN self_task_ssm_next_state(fpi_device_verify_report(s, "fail",
                                                           NoPrint))
    ELSE self_task_ssm_next_state(fpi_device_identify_report(s, 0, NoPrint))

\* the id read from the first 32-byte slot of the reply
egismoc_identify_check_cb_offset14(s, reply, error) ==
  IF error # "none" THEN self_task_ssm_mark_failed(s, error)
  ELSE IF egismoc_validate_response_prefix(reply, "rsp_identify_match_prefix")
          /\ egismoc_validate_response_suffix(reply,
                                              "rsp_identify_match_suffix")
    THEN identify_check_match(s, reply, 14)
  ELSE IF egismoc_validate_response_prefix(reply,
                                           "rsp_identify_notmatch_prefix")
    THEN identify_check_notmatch(s)
  ELSE self_task_ssm_mark_failed(s, "proto")

egismoc_identify_check_cb(s, reply, error) ==
  IF error # "none" THEN self_task_ssm_mark_failed(s, error)
  ELSE IF egismoc_validate_response_prefix(reply, "rsp_identify_match_prefix")
          /\ egismoc_validate_response_suffix(reply,
                                              "rsp_identify_match_suffix")
    THEN identify_check_match(s, reply,
                              EGISMOC_IDENTIFY_RESPONSE_PRINT_ID_OFFSET)
  ELSE IF egismoc_validate_response_prefix(reply,
                                           "rsp_identify_notmatch_prefix")
    THEN identify_check_notmatch(s)
  ELSE self_task_ssm_mark_failed(s, "proto")

\* the count not looked at
IDENTIFY_CHECK_ENROLLED_NUM_skip(s) == fpi_ssm_next_state(ReadEnrolled(s))

IDENTIFY_CHECK_ENROLLED_NUM(s) ==
  LET s1 == ReadEnrolled(s)
  IN  IF s.enrolled_num = 0
        THEN fpi_ssm_mark_failed([s1 EXCEPT !.task_ssm = "NULL"],
                                 "data_not_found")
        ELSE fpi_ssm_next_state(s1)

egismoc_identify_run_state(s) ==
  LET cur == fpi_ssm_get_cur_state(s)
  IN  CASE cur = "IDENTIFY_GET_ENROLLED_IDS" -> egismoc_fill_enrolled_ids(s)
        [] cur = "IDENTIFY_CHECK_ENROLLED_NUM" ->
             IDENTIFY_CHECK_ENROLLED_NUM(s)
        [] cur = "IDENTIFY_SENSOR_RESET" ->
             egismoc_get_cmd(s, "cmd_sensor_reset",
                             "egismoc_task_ssm_next_state_cb")
        [] cur = "IDENTIFY_SENSOR_IDENTIFY" ->
             egismoc_get_cmd(s, "cmd_sensor_identify",
                             "egismoc_task_ssm_next_state_cb")
        [] cur = "IDENTIFY_WAIT_FINGER" -> egismoc_wait_finger_on_sensor(s)
        [] cur = "IDENTIFY_SENSOR_CHECK" ->
             egismoc_get_cmd(s, "cmd_sensor_check",
                             "egismoc_task_ssm_next_state_cb")
        [] cur = "IDENTIFY_CHECK" ->
             send_check_cmd(s, "egismoc_identify_check_cb")
        [] cur = "IDENTIFY_COMPLETE_SENSOR_RESET" ->
             egismoc_get_cmd(s, "cmd_sensor_reset",
                             "egismoc_task_ssm_next_state_cb")
        [] cur = "IDENTIFY_COMPLETE" ->
             fpi_ssm_mark_completed(fpi_device_complete(s, "none"))

egismoc_identify_verify(s) ==
  fpi_ssm_start(fpi_ssm_new(s, "egismoc_identify_run_state", "none"))

---------------------------------------------------------------------------
(* Open, cancel, close *)

\* the suffix not looked at
egismoc_fw_version_cb_any_suffix(s, reply, error) ==
  IF error # "none" THEN self_task_ssm_mark_failed(s, error)
  ELSE self_task_ssm_next_state(s)

\* the version is copied into length_in - prefix_length - suffix_len bytes,
\* a size_t: below zero it wraps and the allocation aborts the process
egismoc_fw_version_cb(s, reply, error) ==
  IF error # "none" THEN self_task_ssm_mark_failed(s, error)
  ELSE IF ~egismoc_validate_response_suffix(reply, "rsp_fw_version_suffix")
    THEN self_task_ssm_mark_failed(s, "proto")
  ELSE IF reply.len < (egismoc_read_prefix_len + 2 + 3 + 1)
                        + rsp_fw_version_suffix_len
    THEN Crash(s)
  ELSE self_task_ssm_next_state(s)

\* fpi_usb_transfer_fill_control of the five control states
dev_init_control(cur) ==
  CASE cur = "DEV_INIT_CONTROL1" ->
         [type |-> "vendor", request |-> 32, value |-> 0, idx |-> 4,
          length |-> 16]
    [] cur = "DEV_INIT_CONTROL2" ->
         [type |-> "vendor", request |-> 32, value |-> 0, idx |-> 4,
          length |-> 40]
    [] cur = "DEV_INIT_CONTROL3" ->
         [type |-> "standard", request |-> 0, value |-> 0, idx |-> 0,
          length |-> 2]
    [] cur = "DEV_INIT_CONTROL4" ->
         [type |-> "standard", request |-> 0, value |-> 0, idx |-> 0,
          length |-> 2]
    [] cur = "DEV_INIT_CONTROL5" ->
         [type |-> "vendor", request |-> 82, value |-> 0, idx |-> 0,
          length |-> 8]

egismoc_dev_init_handler(s) ==
  IF fpi_ssm_get_cur_state(s) = "DEV_GET_FW_VERSION"
    THEN egismoc_get_cmd(s, "cmd_fw_version", "egismoc_fw_version_cb")
    ELSE fpi_usb_transfer_submit(
           [s EXCEPT !.obs.ctrl = dev_init_control(fpi_ssm_get_cur_state(s))],
           "ctrl", "fpi_ssm_usb_transfer_cb")

egismoc_open(s, reset_ok, claim_ok) ==
  LET s1 == [s EXCEPT !.interrupt_cancellable = "untripped"]
  IN  IF ~reset_ok THEN fpi_device_open_complete(s1, "usb")
      ELSE IF ~claim_ok THEN fpi_device_open_complete(s1, "usb")
      ELSE fpi_ssm_start(
             fpi_ssm_new([s1 EXCEPT !.iface = TRUE],
                         "egismoc_dev_init_handler", "none"))

\* the tripped cancellable kept
egismoc_cancel_keep(s) ==
  [s EXCEPT !.xfer.cancelled =
               @ \/ (s.xfer.kind = "intr"
                     /\ s.interrupt_cancellable # "NULL"),
            !.out.bulk_cancel = @ \/ s.xfer.kind \in {"send", "recv"},
            !.interrupt_cancellable =
               IF @ = "NULL" THEN "NULL" ELSE "tripped"]

\* every transfer in flight cancelled
egismoc_cancel_all(s) ==
  [s EXCEPT !.xfer.cancelled = @ \/ s.xfer.kind # "none",
            !.out.bulk_cancel = @ \/ s.xfer.kind \in {"send", "recv"},
            !.interrupt_cancellable = "untripped"]

egismoc_cancel(s) ==
  [s EXCEPT !.xfer.cancelled =
               @ \/ (s.xfer.kind = "intr"
                     /\ s.interrupt_cancellable # "NULL"),
            !.out.bulk_cancel = @ \/ s.xfer.kind \in {"send", "recv"},
            !.interrupt_cancellable = "untripped"]

egismoc_close(s) ==
  LET s1 == egismoc_cancel(s)
      s2 == [s1 EXCEPT
               !.orphans = IF s1.task_ssm = "set" /\ ~s1.task.completed
                             THEN Min(@ + 1, MaxOrphans) ELSE @,
               !.task_ssm = "NULL", !.cmd_ssm = "NULL",
               !.cmd_transfer = "NULL", !.interrupt_cancellable = "NULL",
               !.enrolled_ids = NoIds, !.iface = FALSE]
  IN  fpi_device_close_complete(s2, "none")

---------------------------------------------------------------------------
(* Dispatch: a machine's handler, a command's continuation *)

fpi_ssm_run(s) ==
  IF s.crashed THEN s
  ELSE CASE s.task.handler = "egismoc_list_run_state" ->
              egismoc_list_run_state(s)
         [] s.task.handler = "egismoc_delete_run_state" ->
              egismoc_delete_run_state(s)
         [] s.task.handler = "egismoc_clear_storage_run_state" ->
              egismoc_clear_storage_run_state(s)
         [] s.task.handler = "egismoc_enroll_run_state" ->
              egismoc_enroll_run_state(s)
         [] s.task.handler = "egismoc_identify_run_state" ->
              egismoc_identify_run_state(s)
         [] s.task.handler = "egismoc_dev_init_handler" ->
              egismoc_dev_init_handler(s)

\* The byte ranges [lo, hi) of the reply that the decoders read.
\* A marker compare reads from its offset on, its first byte at least.
prefix_reads ==
  {[lo |-> egismoc_read_prefix_len + EGISMOC_CHECK_BYTES_LENGTH,
    hi |-> egismoc_read_prefix_len + EGISMOC_CHECK_BYTES_LENGTH + 1]}

list_cb_reads(length_in) ==
  {[lo |-> 14 + (print_num * EGISMOC_FINGERPRINT_DATA_SIZE),
    hi |-> 14 + (print_num * EGISMOC_FINGERPRINT_DATA_SIZE)
              + EGISMOC_FINGERPRINT_DATA_SIZE] :
     print_num \in 0..(list_cb_enrolled_num(length_in) - 1)}

identify_check_reads(reply) ==
  prefix_reads \cup
  IF egismoc_validate_response_prefix(reply, "rsp_identify_match_prefix")
     /\ egismoc_validate_response_suffix(reply, "rsp_identify_match_suffix")
    THEN {[lo |-> EGISMOC_IDENTIFY_RESPONSE_PRINT_ID_OFFSET,
           hi |-> EGISMOC_IDENTIFY_RESPONSE_PRINT_ID_OFFSET
                    + EGISMOC_FINGERPRINT_DATA_SIZE]}
    ELSE {}

\* the length of the version string, as a number before its conversion to
\* size_t
fw_version_length(length_in) ==
  length_in - (egismoc_read_prefix_len + 2 + 3 + 1)
    - rsp_fw_version_suffix_len

fw_version_reads(reply) ==
  {[lo |-> reply.len - rsp_fw_version_suffix_len, hi |-> reply.len]} \cup
  IF egismoc_validate_response_suffix(reply, "rsp_fw_version_suffix")
    THEN {[lo |-> egismoc_read_prefix_len + 2 + 3 + 1,
           hi |-> egismoc_read_prefix_len + 2 + 3 + 1
                    + fw_version_length(reply.len)]}
    ELSE {}

reply_reads(callback, reply) ==
  CASE callback = "egismoc_list_cb" -> list_cb_reads(reply.len)
    [] callback = "egismoc_identify_check_cb" -> identify_check_reads(reply)
    [] callback = "egismoc_fw_version_cb" -> fw_version_reads(reply)
    [] callback = "egismoc_task_ssm_next_state_cb" -> {}
    [] OTHER -> prefix_reads

\* data->callback (device, buffer_in, length_in, error)
SynCmdMsgCallback(s, callback, reply, error) ==
  LET s1 == [s EXCEPT !.last = [cb |-> callback, error |-> error,
                                len |-> reply.len, pre |-> reply.pre,
                                suf |-> reply.suf, ids |-> reply.ids],
                      !.obs.cb = callback, !.obs.calls = @ + 1]
  IN  CASE callback = "egismoc_list_cb" -> egismoc_list_cb(s1, reply, error)
        [] callback = "egismoc_task_ssm_next_state_cb" ->
             egismoc_task_ssm_next_state_cb(s1, reply, error)
        [] callback = "egismoc_clear_storage_cb" ->
             egismoc_clear_storage_cb(s1, reply, error)
        [] callback = "egismoc_delete_cb" ->
             egismoc_delete_cb(s1, reply, error)
        [] callback = "egismoc_read_capture_cb" ->
             egismoc_read_capture_cb(s1, reply, error)
        [] callback = "egismoc_enroll_check_cb" ->
             egismoc_enroll_check_cb(s1, reply, error)
        [] callback = "egismoc_identify_check_cb" ->
             egismoc_identify_check_cb(s1, reply, error)
        [] callback = "egismoc_fw_version_cb" ->
             egismoc_fw_version_cb(s1, reply, error)

\* the command machine is marked completed, then its done callback runs
egismoc_cmd_ssm_done(s, callback, error) ==
  IF s.crashed THEN s
  ELSE LET s1 == [s EXCEPT !.cmd_active = @ - 1, !.cmd_ssm = "NULL",
                           !.cmd_transfer = "NULL"]
       IN  IF error # "none"
             THEN SynCmdMsgCallback(s1, callback, NoReply, error)
             ELSE s1

\* the next command started only once this machine has completed
egismoc_cmd_receive_cb_complete_first(s, callback, reply, error) ==
  IF error # "none" THEN egismoc_cmd_ssm_done(s, callback, error)
  ELSE IF reply.len < egismoc_read_prefix_len
    THEN egismoc_cmd_ssm_done(s, callback, "general")
  ELSE SynCmdMsgCallback(egismoc_cmd_ssm_done(s, callback, "none"),
                         callback, reply, "none")

\* the received length not tested
egismoc_cmd_receive_cb_any_length(s, callback, reply, error) ==
  IF error # "none" THEN egismoc_cmd_ssm_done(s, callback, error)
  ELSE egismoc_cmd_ssm_done(SynCmdMsgCallback(s, callback, reply, "none"),
                            callback, "none")

egismoc_cmd_receive_cb(s, callback, reply, error) ==
  IF error # "none" THEN egismoc_cmd_ssm_done(s, callback, error)
  ELSE IF reply.len < egismoc_read_prefix_len
    THEN egismoc_cmd_ssm_done(s, callback, "general")
  ELSE egismoc_cmd_ssm_done(SynCmdMsgCallback(s, callback, reply, "none"),
                            callback, "none")

\* the receive posted whatever the send gave
cmd_send_cb_get_anyway(s, callback, error) ==
  egismoc_cmd_run_state(s, "CMD_GET", callback)

\* fpi_ssm_usb_transfer_cb on the command machine's bulk-OUT
cmd_send_cb(s, callback, error) ==
  IF error # "none" THEN egismoc_cmd_ssm_done(s, callback, error)
  ELSE egismoc_cmd_run_state(s, "CMD_GET", callback)

\* fpi_ssm_usb_transfer_cb on the open machine's control transfer
fpi_ssm_usb_transfer_cb(s, error) ==
  IF error # "none" THEN fpi_ssm_mark_failed(s, error)
  ELSE fpi_ssm_next_state(s)

---------------------------------------------------------------------------
(* The device: what a transfer can complete with                           *)

\* the prints a caller enrolls: the user-id generated for a short user
\* name is shorter than an id, for a long one it is longer
UserId(len) == [j \in 1..len |-> IF j = 1 THEN 70 ELSE IF j = 2 THEN 80
                                   ELSE 48 + (j % 10)]
EnrollPrints ==
  {[user_id |-> UserId(40), junk |-> 0, fpi_data |-> NoFpiData]} \cup
  {[user_id |-> UserId(26), junk |-> b, fpi_data |-> NoFpiData] :
     b \in {0, 170}}

\* a list reply: 14 bytes of framing, n ids, 2 trailing bytes
ListReply(n) ==
  [len |-> 16 + (EGISMOC_FINGERPRINT_DATA_SIZE * n), pre |-> {}, suf |-> {},
   ids |-> [k \in 1..n |-> PrintId(k)]]

\* a reply cut below the read prefix, and list replies cut within an id slot
ShortReply == [len |-> 3, pre |-> {}, suf |-> {}, ids |-> <<>>]
CutListReplies ==
  {[len |-> 15, pre |-> {}, suf |-> {}, ids |-> <<>>],
   [len |-> 47, pre |-> {}, suf |-> {}, ids |-> <<PrintId(1)>>]}

MarkedReply(pre, suf) == [len |-> 80, pre |-> pre, suf |-> suf, ids |-> <<>>]

\* an identify reply reporting a match with the k-th stored id: 32 bytes
\* of other data from offset 14, the id from offset 46
MatchReply(k) ==
  [len |-> 80, pre |-> {"rsp_identify_match_prefix"},
   suf |-> {"rsp_identify_match_suffix"}, ids |-> <<PrintId(0), PrintId(k)>>]

\* the print the caller holds for the k-th stored id, and its galleries
StoredPrint(k) == egismoc_set_print_data(NoPrint, PrintId(k))
Galleries ==
  {<<>>, <<StoredPrint(2)>>, <<StoredPrint(2), StoredPrint(1),
                               StoredPrint(1)>>}

\* the prints a caller deletes: one stored by this driver, and one whose
\* fpi-data is not the tagged byte array
DeletePrints ==
  {StoredPrint(1),
   [NoPrint EXCEPT !.fpi_data = [tag |-> "(s)", bytes |-> <<70, 80>>]]}

\* Replies shorter than what their decoder reads.  The bytes of the receive
\* buffer past the received length were never written: a marker compared
\* there may or may not be found, and an id copied from there may be any.
\* A delete reply of the read prefix alone, and a match reply cut within
\* the id.
CutDeleteReplies ==
  {[MarkedReply(pre, {}) EXCEPT !.len = egismoc_read_prefix_len] :
     pre \in {{}, {"rsp_delete_success_prefix"}}}
CutMatchReplies == {[MatchReply(k) EXCEPT !.len = 60] : k \in {1, 3}}

RepliesFor(callback) ==
  {ShortReply} \cup
  CASE callback = "egismoc_list_cb" ->
         {ListReply(n) : n \in 0..MaxPrints} \cup CutListReplies
    [] callback \in {"egismoc_delete_cb", "egismoc_clear_storage_cb"} ->
         {MarkedReply({"rsp_delete_success_prefix"}, {}), MarkedReply({}, {})}
         \cup CutDeleteReplies
    [] callback = "egismoc_enroll_check_cb" ->
         {MarkedReply({"rsp_check_not_yet_enrolled_prefix"}, {}),
          MarkedReply({"rsp_identify_match_prefix"},
                      {"rsp_identify_match_suffix"}),
          MarkedReply({}, {})}
    [] callback = "egismoc_read_capture_cb" ->
         {MarkedReply({"rsp_read_success_prefix"},
                      {"rsp_read_success_suffix"}),
          MarkedReply({"rsp_read_success_prefix"}, {}),
          MarkedReply({"rsp_read_offcenter_prefix"},
                      {"rsp_read_offcenter_suffix"}),
          MarkedReply({"rsp_read_dirty_prefix"}, {}),
          MarkedReply({}, {})}
    [] callback = "egismoc_identify_check_cb" ->
         {MatchReply(k) : k \in {1, 3}} \cup CutMatchReplies \cup
         {MarkedReply({"rsp_identify_match_prefix"}, {}),
          MarkedReply({"rsp_identify_notmatch_prefix"}, {}),
          MarkedReply({}, {})}
    [] callback = "egismoc_fw_version_cb" ->
         {MarkedReply({}, {"rsp_fw_version_suffix"}), MarkedReply({}, {}),
          [MarkedReply({}, {"rsp_fw_version_suffix"}) EXCEPT !.len = 8]}
    [] OTHER -> {MarkedReply({}, {})}

---------------------------------------------------------------------------
(* Initial state and actions *)

DriverInit ==
  /\ task_ssm = "NULL"
  /\ cmd_ssm = "NULL"
  /\ cmd_transfer = "NULL"
  /\ enrolled_ids = NoIds
  /\ enrolled_num = 0
  /\ interrupt_cancellable = "NULL"
  /\ task = NoTask
  /\ stage = 0
  /\ xfer = NoXfer
  /\ orphans = 0
  /\ iface = FALSE
  /\ dev_open = FALSE
  /\ action = "none"
  /\ action_data = NoActionData
  /\ crashed = FALSE
  /\ op = "none"
  /\ n_complete = 0
  /\ result = "none"
  /\ sent = {}
  /\ refreshes = <<>>
  /\ last = NoLast
  /\ cmd_active = 0
  /\ out = NoOut
  /\ obs = [cmd_peak |-> 0, stale |-> FALSE, mismatch |-> FALSE,
            cb |-> "none", cmd |-> "none", progress |-> NoProgress,
            ctrl |-> NoCtrl, retry |-> NoRetry, finger |-> <<>>, calls |-> 0]

Init == DriverInit /\ body = <<>> /\ frame = <<>>

\* the framework starts an operation: only one is outstanding at a time
Begin(o) ==
  [St EXCEPT !.action = o, !.op = o, !.n_complete = 0, !.result = "none",
             !.sent = {}, !.refreshes = <<>>, !.last = NoLast,
             !.out = NoOut, !.action_data = NoActionData,
             !.task.fresh = FALSE]

Idle == action = "none" /\ ~crashed

\* the transfer in flight has completed
Completed == [St EXCEPT !.xfer = NoXfer]

Open ==
  /\ Idle /\ ~dev_open
  /\ \E reset_ok \in BOOLEAN, claim_ok \in BOOLEAN :
       Commit(egismoc_open(Begin("open"), reset_ok, claim_ok))
  /\ UNCHANGED codec_vars

Close ==
  /\ Idle /\ dev_open
  /\ Commit(egismoc_close(Begin("close")))
  /\ UNCHANGED codec_vars

List ==
  /\ Idle /\ dev_open
  /\ Commit(egismoc_list(Begin("list")))
  /\ UNCHANGED codec_vars

Delete ==
  /\ Idle /\ dev_open
  /\ \E delete_print \in DeletePrints :
       Commit(egismoc_delete(Begin("delete"), delete_print))
  /\ UNCHANGED codec_vars

ClearStorage ==
  /\ Idle /\ dev_open
  /\ Commit(egismoc_clear_storage(Begin("clear_storage")))
  /\ UNCHANGED codec_vars

Enroll ==
  /\ Idle /\ dev_open
  /\ \E enroll_print \in EnrollPrints :
       Commit(egismoc_enroll(Begin("enroll"), enroll_print))
  /\ UNCHANGED codec_vars

Identify ==
  /\ Idle /\ dev_open
  /\ \E gallery \in Galleries :
       Commit(egismoc_identify_verify(
                [Begin("identify") EXCEPT !.action_data.gallery = gallery]))
  /\ UNCHANGED codec_vars

Verify ==
  /\ Idle /\ dev_open
  /\ \E print \in {StoredPrint(1), StoredPrint(2)} :
       Commit(egismoc_identify_verify(
                [Begin("verify") EXCEPT !.action_data.print = print]))
  /\ UNCHANGED codec_vars

\* cancel and suspend are the same entry
Cancel ==
  /\ action # "none" /\ ~crashed
  /\ Commit(egismoc_cancel(St))
  /\ UNCHANGED codec_vars

SendDone ==
  /\ xfer.kind = "send" /\ ~crashed
  /\ \E error \in {"none", "usb"} :
       Commit(cmd_send_cb(Completed, xfer.callback, error))
  /\ UNCHANGED codec_vars

RecvDone ==
  /\ xfer.kind = "recv" /\ ~crashed
  /\ \/ Commit(egismoc_cmd_receive_cb(Completed, xfer.callback, NoReply,
                                      "usb"))
     \/ \E reply \in RepliesFor(xfer.callback) :
          Commit(egismoc_cmd_receive_cb(Completed, xfer.callback, reply,
                                        "none"))
  /\ UNCHANGED codec_vars

FingerDone ==
  /\ xfer.kind = "intr" /\ ~crashed
  /\ \E error \in IF xfer.cancelled THEN {"cancelled"} ELSE {"none", "usb"} :
       Commit(egismoc_finger_on_sensor_cb(Completed, error))
  /\ UNCHANGED codec_vars

ControlDone ==
  /\ xfer.kind = "ctrl" /\ ~crashed
  /\ \E error \in {"none", "usb"} :
       Commit(fpi_ssm_usb_transfer_cb(Completed, error))
  /\ UNCHANGED codec_vars

Next ==
  \/ Open \/ Close \/ List \/ Delete \/ ClearStorage \/ Enroll \/ Identify
  \/ Verify \/ Cancel \/ SendDone \/ RecvDone \/ FingerDone \/ ControlDone

Spec == Init /\ [][Next]_vars

---------------------------------------------------------------------------
(* The codec applied to bounded bodies *)

RECURSIVE SeqsUpTo(_, _)
SeqsUpTo(S, n) ==
  IF n = 0 THEN {<<>>}
  ELSE LET shorter == SeqsUpTo(S, n - 1)
       IN  shorter \cup {Append(q, b) : q \in shorter, b \in S}

CodecInit ==
  /\ DriverInit
  /\ body \in SeqsUpTo(ByteSamples, MaxBodyLen)
  /\ frame = <<>>

Compose ==
  /\ frame = <<>>
  /\ frame' = egismoc_compose_cmd(body)
  /\ UNCHANGED body
  /\ UNCHANGED driver_vars

CodecNext == Compose

CodecSpec == CodecInit /\ [][CodecNext]_vars

---------------------------------------------------------------------------
(* The check body built for bounded registries *)

\* the registry after a list reply of n ids, numbered from base in steps
Registry(n, base, step) ==
  [ptr |-> "set", ids |-> [k \in 1..n |-> PrintId(base + (step * k))]]

CheckInit ==
  /\ \E n \in 0..MaxRegistry, base \in {0, 3}, step \in {1, 2} :
       /\ enrolled_ids = Registry(n, base, step)
       /\ enrolled_num = n
       /\ refreshes = <<n>>
  /\ task_ssm = "NULL" /\ cmd_ssm = "NULL" /\ cmd_transfer = "NULL"
  /\ interrupt_cancellable = "untripped" /\ task = NoTask /\ stage = 0
  /\ xfer = NoXfer /\ orphans = 0 /\ iface = TRUE /\ dev_open = TRUE
  /\ action = "none" /\ action_data = NoActionData /\ crashed = FALSE
  /\ op = "none" /\ n_complete = 0 /\ result = "none" /\ sent = {}
  /\ last = NoLast /\ cmd_active = 0 /\ out = NoOut
  /\ obs = [cmd_peak |-> 0, stale |-> FALSE, mismatch |-> FALSE,
            cb |-> "none", cmd |-> "none", progress |-> NoProgress,
            ctrl |-> NoCtrl, retry |-> NoRetry, finger |-> <<>>, calls |-> 0]
  /\ body = <<>> /\ frame = <<>>

BuildCheck ==
  /\ body = <<>>
  /\ body' = egismoc_get_check_cmd(St).cmd
  /\ frame' = egismoc_compose_cmd(body')
  /\ UNCHANGED driver_vars

CheckNext == BuildCheck

CheckSpec == CheckInit /\ [][CheckNext]_vars

----------------------------------------------------------------------------
(* The delete body built for bounded registries and targets *)

\* the print to delete: none (clear-storage) or one this driver stored
DeleteTargets == {NoPrint, StoredPrint(1), StoredPrint(9)}

DeleteInit ==
  /\ \E n \in 0..MaxRegistry, base \in {0, 3}, step \in {1, 2} :
       /\ enrolled_ids = Registry(n, base, step)
       /\ enrolled_num = n
       /\ refreshes = <<n>>
  /\ \E delete_print \in DeleteTargets :
       action_data = [NoActionData EXCEPT !.print = delete_print]
  /\ task_ssm = "NULL" /\ cmd_ssm = "NULL" /\ cmd_transfer = "NULL"
  /\ interrupt_cancellable = "untripped" /\ task = NoTask /\ stage = 0
  /\ xfer = NoXfer /\ orphans = 0 /\ iface = TRUE /\ dev_open = TRUE
  /\ action = "none" /\ crashed = FALSE
  /\ op = "none" /\ n_complete = 0 /\ result = "none" /\ sent = {}
  /\ last = NoLast /\ cmd_active = 0 /\ out = NoOut
  /\ obs = [cmd_peak |-> 0, stale |-> FALSE, mismatch |-> FALSE,
            cb |-> "none", cmd |-> "none", progress |-> NoProgress,
            ctrl |-> NoCtrl, retry |-> NoRetry, finger |-> <<>>, calls |-> 0]
  /\ body = <<>> /\ frame = <<>>

BuildDelete ==
  /\ body = <<>>
  /\ body' = egismoc_get_delete_cmd(St, action_data.print).cmd
  /\ frame' = egismoc_compose_cmd(body')
  /\ UNCHANGED driver_vars

DeleteNext == BuildDelete

DeleteSpec == DeleteInit /\ [][DeleteNext]_vars

----------------------------------------------------------------------------
(* A list reply parsed into the registry, and the clear body built from it *)

\* a complete list reply carrying ids, and replies cut short of that
ListReplyOf(ids) ==
  [len |-> 16 + (EGISMOC_FINGERPRINT_DATA_SIZE * Len(ids)), pre |-> {},
   suf |-> {}, ids |-> ids]
ParseReplies ==
  {ListReplyOf(Registry(n, base, step).ids) :
     n \in 0..MaxRegistry, base \in {0, 3}, step \in {1, 2}}
  \cup {[ListReplyOf(Registry(n, 0, 1).ids) EXCEPT !.len = @ - cut] :
          n \in 1..3, cut \in {1, 17, 33}}
  \cup {[ListReplyOf(<<>>) EXCEPT !.len = 6]}

\* the registry egismoc_fill_enrolled_ids has just made, the list command
\* in flight, no task machine to advance
ListInit ==
  /\ enrolled_ids = [ptr |-> "set", ids |-> <<>>]
  /\ enrolled_num \in {0, 2}
  /\ refreshes = <<>>
  /\ task_ssm = "NULL" /\ cmd_ssm = "NULL" /\ cmd_transfer = "NULL"
  /\ interrupt_cancellable = "untripped" /\ task = NoTask /\ stage = 0
  /\ xfer = NoXfer /\ orphans = 0 /\ iface = TRUE /\ dev_open = TRUE
  /\ action = "none" /\ action_data = NoActionData /\ crashed = FALSE
  /\ op = "none" /\ n_complete = 0 /\ result = "none" /\ sent = {}
  /\ last = NoLast /\ cmd_active = 0 /\ out = NoOut
  /\ obs = [cmd_peak |-> 0, stale |-> FALSE, mismatch |-> FALSE,
            cb |-> "none", cmd |-> "none", progress |-> NoProgress,
            ctrl |-> NoCtrl, retry |-> NoRetry, finger |-> <<>>, calls |-> 0]
  /\ body = <<>> /\ frame = <<>>

ParseList ==
  /\ last.cb = "none"
  /\ \E reply \in ParseReplies :
       Commit(SynCmdMsgCallback(St, "egismoc_list_cb", reply, "none"))
  /\ UNCHANGED codec_vars

BuildClear ==
  /\ last.cb = "egismoc_list_cb" /\ body = <<>>
  /\ body' = egismoc_get_delete_cmd(St, NoPrint).cmd
  /\ frame' = egismoc_compose_cmd(body')
  /\ UNCHANGED driver_vars

ListNext == ParseList \/ BuildClear

ListSpec == ListInit /\ [][ListNext]_vars

----------------------------------------------------------------------------
(* Properties *)

\* the machine this operation started is still started and not completed
TaskLeftRunning == task.fresh /\ ~task.completed

\* task machines started and not completed
TaskActive ==
  orphans + (IF task_ssm = "set" /\ ~task.completed THEN 1 ELSE 0)

\* every event of the operation has resolved
Quiescent == xfer.kind = "none"

\* C1: the completion of every operation is reported to the framework
\* exactly once: never twice, and never zero times once no transfer of the
\* operation is outstanding any more.
C1_ReportedExactlyOnce ==
  /\ n_complete <= 1
  /\ (op # "none" /\ Quiescent) => n_complete = 1

\* a delete whose reply lacked the delete-success prefix: reported once as
\* a protocol error, the machine neither advanced nor failed
C1_Witness ==
  /\ op = "delete" /\ Quiescent /\ n_complete = 1 /\ result = "proto"
  /\ last.cb = "egismoc_delete_cb" /\ TaskLeftRunning

NonRetryErrors ==
  {"data_full", "data_duplicate", "proto", "usb", "general", "cancelled"}

\* C2: an operation that has ended with a non-retry error has terminated
\* its operation-level machine: once the error is reported and nothing is
\* outstanding, the machine the operation started has run its done callback.
C2_ErrorTerminatesMachine ==
  (Quiescent /\ ~crashed /\ n_complete >= 1 /\ result \in NonRetryErrors
     /\ task.fresh)
    => task.completed

\* C3: at most one operation-level machine and at most one command machine
\* is started and not completed, at every moment, within a step included.
C3_AtMostOneActive == TaskActive <= 1 /\ obs.cmd_peak <= 1

\* C4: every read of the enrollment count or of the registry by a decision
\* or a command builder follows a list exchange of the same operation.
C4_ReadsFollowRefresh == ~obs.stale

\* C5: a clear-storage whose registry refresh returns N = 0 sends no delete
\* command and, once over, has failed with data-not-found.
C5_ClearEmptyNotFound ==
  (op = "clear_storage" /\ refreshes # <<>> /\ refreshes[1] = 0)
    => /\ "cmd_delete" \notin sent
       /\ (Quiescent => result = "data_not_found")

\* C6: whenever enrolled_num or the registry is read, enrolled_num is the
\* number of ids the registry holds.
C6_NumEqualsRegistryLength == ~obs.mismatch

\* the 16-bit word sum a receiver computes over a frame: words low byte
\* first, an odd last byte padded with a zero high byte
RECURSIVE WordSumLE(_)
WordSumLE(f) ==
  IF Len(f) = 0 THEN 0
  ELSE IF Len(f) = 1 THEN f[1]
  ELSE f[1] + (256 * f[2]) + WordSumLE(SubSeq(f, 3, Len(f)))

\* C7: the word sum of every composed frame, check bytes included, is
\* congruent to 0 modulo 0xFFFF.
C7_FrameSumsToZero == frame # <<>> => WordSumLE(frame) % 65535 = 0

\* an odd-length body whose words carry past 16 bits
C7_Witness == frame # <<>> /\ body = <<255, 255, 255>>

\* C8: a composed frame is the write prefix, two check bytes holding low
\* byte first 0xFFFF - (word sum of the frame with zeroed check bytes mod
\* 0xFFFF), then the body unchanged; 10 + len(body) bytes in all.
C8_FrameLayout ==
  frame # <<>> =>
    /\ Len(frame) = 10 + Len(body)
    /\ SubSeq(frame, 1, 8) = <<69, 71, 73, 83, 0, 0, 0, 1>>
    /\ frame[9] + (256 * frame[10])
         = 65535 - (WordSumLE(SubSeq(frame, 1, 8) \o <<0, 0>>
                              \o SubSeq(frame, 11, Len(frame))) % 65535)
    /\ SubSeq(frame, 11, Len(frame)) = body

\* the body 0x71 0x64 brings the zeroed frame to a multiple of 0xFFFF: the
\* check bytes are FF FF
C8_Witness ==
  frame # <<>> /\ body = <<113, 100>> /\ frame[9] = 255 /\ frame[10] = 255

\* C9: an enroll whose registry refresh returns N >= EGISMOC_MAX_ENROLL_NUM
\* has failed with data-full, having sent the list command only and posted
\* no finger wait.
C9_FullDeviceSendsNothing ==
  (op = "enroll" /\ refreshes # <<>>
     /\ refreshes[1] >= EGISMOC_MAX_ENROLL_NUM)
    => /\ n_complete = 1 /\ result = "data_full"
       /\ sent = {"cmd_list"} /\ Quiescent

C9_Witness ==
  /\ op = "enroll" /\ refreshes = <<EGISMOC_MAX_ENROLL_NUM>>
  /\ result = "data_full" /\ last.cb = "egismoc_list_cb"

\* C10: an enroll whose check reply, as handed to the continuation, lacks
\* the not-yet-enrolled prefix has failed with data-duplicate and sends
\* neither enroll-start, commit-start nor the new-print command.
C10_DuplicateAbortsEnroll ==
  (op = "enroll" /\ last.cb = "egismoc_enroll_check_cb"
     /\ last.error = "none"
     /\ "rsp_check_not_yet_enrolled_prefix" \notin last.pre)
    => /\ n_complete = 1 /\ result = "data_duplicate" /\ Quiescent
       /\ sent \cap {"cmd_enroll_starting", "cmd_commit_starting",
                     "cmd_new_print"} = {}

\* the check reply carried the identify-match prefix
C10_Witness ==
  /\ op = "enroll" /\ last.cb = "egismoc_enroll_check_cb"
  /\ "rsp_identify_match_prefix" \in last.pre
  /\ result = "data_duplicate" /\ "cmd_check" \in sent

\* C11: in the enroll capture loop a read-capture reply with the success
\* prefix and the success suffix adds exactly 1 to the stage and reports
\* progress; any other reply reports a retry and leaves the stage as it
\* was; after either the machine is back at the capture sensor-reset step,
\* unless the stage equals EGISMOC_ENROLL_TIMES: then it is at commit-start.
C11_CaptureLoop ==
  [][(obs'.cb = "egismoc_read_capture_cb" /\ last'.error = "none")
       => /\ IF "rsp_read_success_prefix" \in last'.pre
                /\ "rsp_read_success_suffix" \in last'.suf
               THEN /\ stage' = stage + 1
                    /\ obs'.progress = [kind |-> "ok", stage |-> stage + 1]
               ELSE /\ stage' = stage
                    /\ obs'.progress = [kind |-> "retry", stage |-> stage]
          /\ IF stage' = EGISMOC_ENROLL_TIMES
               THEN /\ fpi_ssm_get_cur_state([task |-> task'])
                         = "ENROLL_COMMIT_START"
                    /\ obs'.cmd = "cmd_commit_starting"
               ELSE /\ fpi_ssm_get_cur_state([task |-> task'])
                         = "ENROLL_CAPTURE_SENSOR_RESET"
                    /\ obs'.cmd = "cmd_sensor_reset"]_vars

\* a retry reported in the middle of the loop, the stage kept
C11_Witness ==
  /\ obs.cb = "egismoc_read_capture_cb" /\ obs.progress.kind = "retry"
  /\ "rsp_read_success_prefix" \in last.pre
  /\ stage = 3 /\ obs.cmd = "cmd_sensor_reset"

\* the step of its machine the operation is at
CurState == fpi_ssm_get_cur_state([task |-> task])

\* the reply to the command in flight is handed on as a success in this step
ReplySucceeds == xfer.kind = "recv" /\ last'.error = "none"

\* C12: in an enroll, commit-start is sent once the target stage is
\* reached; the new-print command is sent only on a successful reply to
\* commit-start and is the frame of new_print_prefix followed by a 32-byte
\* id; sensor-reset follows only a successful reply to new-print; success
\* is reported only on a successful reply to that sensor-reset, and the
\* reported print's fpi-data is the tagged array of the very id that the
\* new-print command carried.
C12_CommitOrder ==
  [][(op = "enroll" /\ op' = "enroll") =>
       /\ obs'.cmd = "cmd_commit_starting" =>
            /\ stage' = EGISMOC_ENROLL_TIMES
            /\ CurState = "ENROLL_CAPTURE_READ_RESPONSE" /\ ReplySucceeds
       /\ obs'.cmd = "cmd_new_print" =>
            /\ CurState = "ENROLL_COMMIT_START" /\ ReplySucceeds
            /\ out'.new_print
                 = egismoc_compose_cmd(
                     cmd_new_print_prefix
                       \o SubSeq(out'.new_print,
                                 11 + Len(cmd_new_print_prefix),
                                 Len(out'.new_print)))
            /\ Len(out'.new_print)
                 = 10 + Len(cmd_new_print_prefix)
                      + EGISMOC_FINGERPRINT_DATA_SIZE
       /\ (obs'.cmd = "cmd_sensor_reset"
             /\ CurState' = "ENROLL_COMMIT_SENSOR_RESET") =>
            CurState = "ENROLL_COMMIT" /\ ReplySucceeds
       /\ (n_complete' > n_complete /\ result' = "none") =>
            /\ CurState = "ENROLL_COMMIT_SENSOR_RESET" /\ ReplySucceeds
            /\ {"cmd_commit_starting", "cmd_new_print"} \subseteq sent
            /\ out'.print.tag = "(@ay)"
            /\ out'.print.bytes
                 = SubSeq(out.new_print, 11 + Len(cmd_new_print_prefix),
                          Len(out.new_print))]_vars

\* an enroll reported successful whose user-id was shorter than an id
C12_Witness ==
  /\ op = "enroll" /\ n_complete = 1 /\ result = "none"
  /\ out.new_print # <<>> /\ out.print.bytes[28] = 170
  /\ stage = EGISMOC_ENROLL_TIMES

\* C13: an identify or verify whose registry refresh returns N = 0 has
\* failed with data-not-found, having sent the list command only and posted
\* no finger wait.
C13_EmptyDeviceNotFound ==
  (op \in {"identify", "verify"} /\ refreshes # <<>> /\ refreshes[1] = 0)
    => /\ n_complete = 1 /\ result = "data_not_found"
       /\ sent = {"cmd_list"} /\ Quiescent

\* a verify on a device whose list reply holds less than one id slot
C13_Witness ==
  /\ op = "verify" /\ refreshes = <<0>> /\ last.cb = "egismoc_list_cb"
  /\ last.len = 47 /\ result = "data_not_found" /\ task.completed

\* the print built from bytes [46, 78) of the reply last handed on: the
\* reply's 32-byte slots start at offset 14, so these are its second slot
CapturedData == [tag |-> "(@ay)", bytes |-> last.ids[2]]

\* C14: when the check reply of an identify or verify has the match prefix
\* and the match suffix, the id is taken from reply bytes [46, 78); identify
\* reports (gallery entry, captured print) if some gallery print equals the
\* print built from that id and (none, captured print) otherwise; verify
\* reports success iff the reference print equals it and fail otherwise.
C14_MatchReport ==
  (obs.cb = "egismoc_identify_check_cb" /\ last.error = "none"
     /\ "rsp_identify_match_prefix" \in last.pre
     /\ "rsp_identify_match_suffix" \in last.suf /\ last.len >= 78)
    => /\ out.n_report = 1
       /\ out.report.print = CapturedData
       /\ IF op = "identify"
            THEN /\ out.report.kind = "identify"
                 /\ IF \E i \in 1..Len(action_data.gallery) :
                         action_data.gallery[i].fpi_data = CapturedData
                      THEN /\ out.report.match \in 1..Len(action_data.gallery)
                           /\ action_data.gallery[out.report.match].fpi_data
                                = CapturedData
                      ELSE out.report.match = 0
            ELSE /\ out.report.kind = "verify"
                 /\ out.report.result
                      = IF action_data.print.fpi_data = CapturedData
                          THEN "success" ELSE "fail"

\* an identify matched with the second entry of a gallery of three
C14_Witness ==
  /\ op = "identify" /\ obs.cb = "egismoc_identify_check_cb"
  /\ Len(action_data.gallery) = 3 /\ out.report.match = 2
  /\ out.report.print.bytes = PrintId(1)

\* C15: in an identify or verify, a check reply that is not a match and
\* has the not-match prefix reports no-match (identify: no print; verify:
\* fail); one that fits neither classification fails the operation with a
\* protocol error, nothing reported; a reported result is followed at once
\* by the final sensor-reset command; success is reported only on a
\* successful reply to that sensor-reset, exactly one result having been
\* reported.
C15_NonMatchPaths ==
  [][op' \in {"identify", "verify"} =>
       /\ (obs'.cb = "egismoc_identify_check_cb" /\ last'.error = "none"
             /\ ~("rsp_identify_match_prefix" \in last'.pre
                    /\ "rsp_identify_match_suffix" \in last'.suf)) =>
            IF "rsp_identify_notmatch_prefix" \in last'.pre
              THEN /\ out'.n_report = 1 /\ n_complete' = 0
                   /\ out'.report
                        = [kind |-> op',
                           result |-> IF op' = "verify" THEN "fail"
                                      ELSE "no_match",
                           match |-> 0, print |-> NoFpiData]
              ELSE /\ out'.n_report = 0
                   /\ n_complete' = 1 /\ result' = "proto" /\ xfer'.kind = "none"
       /\ out'.n_report > out.n_report =>
            /\ obs'.cmd = "cmd_sensor_reset" /\ n_complete' = 0
            /\ CurState' = "IDENTIFY_COMPLETE_SENSOR_RESET"
       /\ (n_complete' > n_complete /\ result' = "none") =>
            /\ CurState = "IDENTIFY_COMPLETE_SENSOR_RESET" /\ ReplySucceeds
            /\ out'.n_report = 1 /\ out'.report = out.report]_vars

\* a verify completed after the device did not identify the finger
C15_Witness ==
  /\ op = "verify" /\ n_complete = 1 /\ result = "none"
  /\ out.report = [kind |-> "verify", result |-> "fail", match |-> 0,
                   print |-> NoFpiData]
  /\ task.completed

\* C16: in a clear-storage, a delete reply with the delete-success prefix
\* is followed by a second list command, one without it is reported as a
\* protocol error with no further command; the second refresh ends the
\* operation, with success if it yields N = 0 and with a protocol error
\* otherwise; success is reported in no other way.
C16_ClearSuccessPath ==
  [][op' = "clear_storage" =>
       /\ (obs'.cb = "egismoc_clear_storage_cb" /\ last'.error = "none") =>
            IF "rsp_delete_success_prefix" \in last'.pre
              THEN obs'.cmd = "cmd_list" /\ n_complete' = 0
              ELSE /\ obs'.cmd = "none" /\ Len(refreshes') = 1
                   /\ n_complete' = 1 /\ result' = "proto"
       /\ Len(refreshes') = 2 /\ Len(refreshes) = 1 =>
            /\ n_complete' = 1
            /\ result' = IF refreshes'[2] = 0 THEN "none" ELSE "proto"
       /\ (n_complete' > n_complete /\ result' = "none") =>
            Len(refreshes') = 2 /\ refreshes'[2] = 0]_vars

\* C17: a delete of one print with well-formed fpi-data sends the delete
\* command only in the step in which the registry refresh succeeds, as the
\* composed frame of the body 00 00 | 00 27 | delete prefix | 00 20 | the
\* print's id; a reply handed to the delete continuation reports success
\* if it carries the delete-success prefix and a protocol error otherwise,
\* and success is reported by no other step.
C17_DeleteSingle ==
  [][(op' = "delete" /\ task'.print.fpi_data.tag = "(@ay)")
       => /\ (obs'.cmd = "cmd_delete")
               => /\ CurState = "DELETE_GET_ENROLLED_IDS"
                  /\ ReplySucceeds /\ last'.cb = "egismoc_list_cb"
                  /\ sent = {"cmd_list"} /\ Len(refreshes') = 1
                  /\ out'.delete
                       = egismoc_compose_cmd(
                           <<0, 0, 0, 39>> \o cmd_delete_prefix \o <<0, 32>>
                             \o task'.print.fpi_data.bytes)
          /\ (obs'.cb = "egismoc_delete_cb" /\ last'.error = "none")
               => /\ CurState = "DELETE_DELETE"
                  /\ n_complete' = 1
                  /\ result' = IF "rsp_delete_success_prefix" \in last'.pre
                                 THEN "none" ELSE "proto"
          /\ (n_complete' > n_complete /\ result' = "none")
               => /\ obs'.cb = "egismoc_delete_cb"
                  /\ "rsp_delete_success_prefix" \in last'.pre]_vars

\* the print's id went out in the delete frame and the reply confirmed it
C17_Witness ==
  /\ op = "delete" /\ last.cb = "egismoc_delete_cb"
  /\ "rsp_delete_success_prefix" \in last.pre
  /\ n_complete = 1 /\ result = "none"
  /\ sent = {"cmd_list", "cmd_delete"}
  /\ SubSeq(out.delete, 22, 53) = PrintId(1)

\* C18: a delete of a print whose fpi-data is not a tagged byte array is
\* reported once as data-invalid and the driver carries on: the delete
\* command is not sent and the process has not faulted on the missing
\* command.
C18_InvalidPrintStopsCleanly ==
  (op = "delete" /\ result = "data_invalid")
    => /\ n_complete = 1
       /\ "cmd_delete" \notin sent /\ out.delete = <<>>
       /\ ~crashed

\* C19 as stated: for a registry of at most 14 ids the check body is
\* 2 + s1_len + check_prefix_len + s2_len + 32 + 32 * |R| +
\* check_suffix_len bytes long, s1_len and s2_len being 1 up to 6 ids and 2
\* above.
C19_LengthAsStated ==
  (body # <<>> /\ enrolled_num <= 14)
    => LET size_len == IF enrolled_num <= 6 THEN 1 ELSE 2
       IN  Len(body) = 2 + size_len + Len(cmd_check_prefix) + size_len + 32
                         + (32 * enrolled_num) + Len(cmd_check_suffix)

\* C19: for a registry of at most 14 ids the check body is
\* 2 + 2 + check_prefix_len + 2 + 32 + 32 * |R| + check_suffix_len bytes
\* long: both size fields take two bytes for every registry size.
C19_CheckBodyLength ==
  (body # <<>> /\ enrolled_num <= 14)
    => Len(body) = 2 + 2 + Len(cmd_check_prefix) + 2 + 32
                     + (32 * enrolled_num) + Len(cmd_check_suffix)

\* six ids: the size fields fit one byte and still take two
C19_Witness ==
  /\ body # <<>> /\ enrolled_num = 6 /\ Len(enrolled_ids.ids) = 6
  /\ Len(body) = 6 + Len(cmd_check_prefix) + 32 + 192 + Len(cmd_check_suffix)
  /\ body[3] = 0 /\ body[4] = 233

\* C20: for N <= 14 ids the check body is 00 00, S1 in two bytes, the
\* check prefix, S2 in two bytes, 32 zero bytes, the N ids in registry
\* order, the check suffix; S1 read high byte first is (N+1)*0x20 + 0x09
\* and S2 is (N+1)*0x20, the high byte of each being 0 for N <= 6 and 1
\* for N >= 7.
C20_CheckBodyContent ==
  (body # <<>> /\ enrolled_num <= 14)
    => LET N == enrolled_num
           p == Len(cmd_check_prefix)
           ids_at == 2 + 2 + p + 2 + 32
           high == IF N >= 7 THEN 1 ELSE 0
       IN  /\ SubSeq(body, 1, 2) = <<0, 0>>
           /\ (body[3] * 256) + body[4] = ((N + 1) * 32) + 9
           /\ SubSeq(body, 5, 4 + p) = cmd_check_prefix
           /\ (body[5 + p] * 256) + body[6 + p] = (N + 1) * 32
           /\ body[3] = high /\ body[5 + p] = high
           /\ \A j \in 1..32 : body[6 + p + j] = 0
           /\ \A k \in 1..N :
                SubSeq(body, ids_at + (32 * (k - 1)) + 1, ids_at + (32 * k))
                  = enrolled_ids.ids[k]
           /\ SubSeq(body, ids_at + (32 * N) + 1, Len(body))
                = cmd_check_suffix

\* seven ids: both size fields have carried into their high byte
C20_Witness ==
  /\ body # <<>> /\ enrolled_num = 7
  /\ SubSeq(body, 3, 4) = <<1, 9>>
  /\ SubSeq(body, 5 + Len(cmd_check_prefix), 6 + Len(cmd_check_prefix))
       = <<1, 0>>
  /\ enrolled_ids.ids[1] # enrolled_ids.ids[7]

\* the number of ids a delete body is built for
DeleteCount == IF action_data.print = NoPrint THEN enrolled_num ELSE 1

\* C21: a delete body for K <= 14 ids is 00 00, K*0x20 + 0x07 in two
\* bytes high byte first, the delete prefix, K*0x20 in two bytes, then
\* the ids: the target's id alone when a print is given, else the
\* registry's ids in registry order; the high byte of each size field is 1
\* exactly when K > 7.
C21_DeleteBodyContent ==
  (body # <<>> /\ DeleteCount <= 14)
    => LET K == DeleteCount
           p == Len(cmd_delete_prefix)
           ids_at == 2 + 2 + p + 2
           high == IF K > 7 THEN 1 ELSE 0
       IN  /\ Len(body) = ids_at + (32 * K)
           /\ SubSeq(body, 1, 2) = <<0, 0>>
           /\ (body[3] * 256) + body[4] = (K * 32) + 7
           /\ SubSeq(body, 5, 4 + p) = cmd_delete_prefix
           /\ (body[5 + p] * 256) + body[6 + p] = K * 32
           /\ body[3] = high /\ body[5 + p] = high
           /\ IF action_data.print # NoPrint
                THEN SubSeq(body, ids_at + 1, ids_at + 32)
                       = action_data.print.fpi_data.bytes
                ELSE \A k \in 1..K :
                       SubSeq(body, ids_at + (32 * (k - 1)) + 1,
                              ids_at + (32 * k)) = enrolled_ids.ids[k]

\* a clear of eight ids: both size fields have carried into the high byte
C21_Witness ==
  /\ body # <<>> /\ action_data.print = NoPrint /\ enrolled_num = 8
  /\ SubSeq(body, 3, 4) = <<1, 7>>
  /\ SubSeq(body, 5 + Len(cmd_delete_prefix), 6 + Len(cmd_delete_prefix))
       = <<1, 0>>
  /\ Len(body) = 267

\* C22: a list reply of length L handed to the list continuation leaves an
\* empty registry when L < 48 and otherwise N = (L - 16) div 32 ids, the
\* i-th being the reply's bytes 14 + 32*i .. 14 + 32*i + 31; a reply made
\* of N ids parses to those ids in order, and the ids of the clear-all
\* delete body then built are those same bytes.
C22_ListRoundTrip ==
  (last.cb = "egismoc_list_cb")
    => LET L == last.len
           N == IF L < 48 THEN 0 ELSE (L - 16) \div 32
           ids_at == 6 + Len(cmd_delete_prefix)
       IN  /\ enrolled_num = N /\ Len(enrolled_ids.ids) = N
           /\ \A i \in 0..(N - 1) :
                /\ Len(enrolled_ids.ids[i + 1]) = 32
                /\ \A j \in 0..31 :
                     enrolled_ids.ids[i + 1][j + 1]
                       = BufferByte(last, 14 + (32 * i) + j)
           /\ (L = 16 + (32 * Len(last.ids)))
                => /\ enrolled_ids.ids = last.ids
                   /\ (body # <<>>)
                        => /\ Len(body) = ids_at + (32 * N)
                           /\ \A k \in 1..N :
                                SubSeq(body, ids_at + (32 * (k - 1)) + 1,
                                       ids_at + (32 * k)) = last.ids[k]

\* three ids parsed and put into the clear body
C22_Witness ==
  /\ last.cb = "egismoc_list_cb" /\ last.len = 112
  /\ enrolled_ids.ids = <<PrintId(5), PrintId(7), PrintId(9)>>
  /\ body # <<>> /\ SubSeq(body, 44, 75) = PrintId(7)

\* C23: when a finger wait that was cancelled while pending completes, the
\* operation that posted it is reported once, with the cancellation error,
\* its task machine has failed and is gone, and the step sends no command
\* and leaves no transfer pending.
C23_CancelledWait ==
  [][(xfer.kind = "intr" /\ xfer.cancelled /\ xfer' # xfer)
       => /\ n_complete = 0 /\ n_complete' = 1 /\ result' = "cancelled"
          /\ op' = op /\ action' = "none"
          /\ task'.completed /\ task_ssm' = "NULL"
          /\ sent' = sent /\ obs'.cmd = "none" /\ xfer'.kind = "none"]_vars

\* an enroll cancelled in its capture loop
C23_Witness ==
  /\ op = "enroll" /\ result = "cancelled" /\ n_complete = 1
  /\ task.completed /\ task_ssm = "NULL" /\ Quiescent
  /\ "cmd_sensor_start_capture" \in sent /\ "cmd_read_capture" \notin sent

\* C24: every cancel leaves the driver holding an untripped cancellable;
\* whenever an operation starts on an open device the cancellable held is
\* untripped, and whenever a finger wait is posted the cancellable it is
\* submitted with is untripped.
C24_FreshCancellable ==
  [][/\ Cancel => interrupt_cancellable' = "untripped"
     /\ (dev_open /\ action = "none" /\ action' # "none")
          => interrupt_cancellable = "untripped"
     /\ (xfer.kind # "intr" /\ xfer'.kind = "intr")
          => ~xfer'.cancelled /\ interrupt_cancellable' = "untripped"]_vars

\* a cancel has tripped the cancellable of the pending wait and replaced
\* the one the driver holds
C24_Witness ==
  /\ xfer.kind = "intr" /\ xfer.cancelled
  /\ interrupt_cancellable = "untripped" /\ action # "none"

\* the bulk-IN of the command in flight completes without a transfer
\* error, having received fewer bytes than the read prefix
ShortReplyStep ==
  /\ xfer.kind = "recv" /\ ~crashed
  /\ \E reply \in RepliesFor(xfer.callback) :
       /\ reply.len < egismoc_read_prefix_len
       /\ Commit(egismoc_cmd_receive_cb(Completed, xfer.callback, reply,
                                        "none"))

\* what the continuation of the command in flight was last called with
\* was an error of this kind and no reply bytes
ContinuationGot(error) ==
  /\ last'.cb = xfer.callback /\ last'.error = error
  /\ last'.len = 0 /\ last'.ids = <<>> /\ last'.pre = {} /\ last'.suf = {}

\* C25 as stated: a reply shorter than the read prefix reaches the
\* continuation as a protocol error, without the reply bytes.
C25_ShortReplyProto == [][ShortReplyStep => ContinuationGot("proto")]_vars

\* C25: a reply shorter than the read prefix reaches the continuation as a
\* general error, without the reply bytes.
C25_ShortReplyGeneral == [][ShortReplyStep => ContinuationGot("general")]_vars

\* a list reply of three bytes: the list has failed with the general error
C25_Witness ==
  /\ op = "list" /\ last.cb = "egismoc_list_cb" /\ last.error = "general"
  /\ last.len = 0 /\ n_complete = 1 /\ result = "general"

InitControls ==
  <<[type |-> "vendor", request |-> 32, value |-> 0, idx |-> 4,
     length |-> 16],
    [type |-> "vendor", request |-> 32, value |-> 0, idx |-> 4,
     length |-> 40],
    [type |-> "standard", request |-> 0, value |-> 0, idx |-> 0,
     length |-> 2],
    [type |-> "standard", request |-> 0, value |-> 0, idx |-> 0,
     length |-> 2],
    [type |-> "vendor", request |-> 82, value |-> 0, idx |-> 0,
     length |-> 8]>>

\* the control transfer of the k-th init state is pending
AtInitControl(k) ==
  /\ task.handler = "egismoc_dev_init_handler" /\ task.cur_state = k
  /\ xfer.kind = "ctrl"

\* C27: during open the k-th control transfer submitted is the k-th of
\* the handshake, the first submitted when open starts and each later one
\* in the step in which the one before completes; a control transfer that
\* fails ends the open with its error and nothing more is submitted; the
\* firmware-version command is sent in the step in which the fifth
\* completes; open is reported successful only in a step that hands the
\* firmware continuation a reply with the fw-version suffix, and a reply
\* handed to it without the suffix fails the open with a protocol error.
C27_OpenHandshake ==
  [][/\ (obs'.ctrl # NoCtrl)
          => /\ op' = "open" /\ task'.cur_state \in 0..4
             /\ obs'.ctrl = InitControls[task'.cur_state + 1]
             /\ IF task'.cur_state = 0 THEN action = "none" /\ ~dev_open
                 ELSE AtInitControl(task'.cur_state - 1)
     /\ (xfer.kind = "ctrl"
           /\ Commit(fpi_ssm_usb_transfer_cb(Completed, "usb")))
          => /\ obs'.ctrl = NoCtrl /\ obs'.cmd = "none"
             /\ xfer'.kind = "none" /\ n_complete' = 1 /\ result' = "usb"
     /\ (obs'.cmd = "cmd_fw_version")
          => AtInitControl(4) /\ sent = {}
     /\ (op' = "open" /\ n_complete' > n_complete /\ result' = "none")
          => /\ obs'.cb = "egismoc_fw_version_cb" /\ last'.error = "none"
             /\ "rsp_fw_version_suffix" \in last'.suf
             /\ sent' = {"cmd_fw_version"}
     /\ (obs'.cb = "egismoc_fw_version_cb" /\ last'.error = "none"
           /\ "rsp_fw_version_suffix" \notin last'.suf)
          => n_complete' = 1 /\ result' = "proto" /\ ~dev_open']_vars

\* the device is open: the handshake ran to the firmware reply
C27_Witness ==
  /\ op = "open" /\ n_complete = 1 /\ result = "none" /\ dev_open
  /\ last.cb = "egismoc_fw_version_cb"
  /\ "rsp_fw_version_suffix" \in last.suf /\ sent = {"cmd_fw_version"}

\* C28: a check body that has been built carries size fields that agree
\* with the number of ids in it, whatever that number is: a registry too
\* large for the encoding is rejected, not encoded with a truncated byte.
C28_SizeFieldsAgree ==
  (body # <<>>)
    => LET N == (Len(body) - (6 + Len(cmd_check_prefix) + 32
                              + Len(cmd_check_suffix))) \div 32
           p == Len(cmd_check_prefix)
       IN  /\ (body[3] * 256) + body[4] = ((N + 1) * 32) + 9
           /\ (body[5 + p] * 256) + body[6 + p] = (N + 1) * 32

\* C29: the id an enroll has committed is 32 bytes long, and each of its
\* bytes at or past the length of the generated user-id string is zero.
C29_PrintIdZeroPadded ==
  (op = "enroll" /\ task.print.fpi_data.tag = "(@ay)")
    => LET id == task.print.fpi_data.bytes
       IN  /\ Len(id) = EGISMOC_FINGERPRINT_DATA_SIZE
           /\ \A j \in 1..Len(id) :
                (j > Len(task.print.user_id)) => id[j] = 0

\* the 16-bit word sum of a frame of even length read high byte first
RECURSIVE WordSumBE(_)
WordSumBE(f) ==
  IF Len(f) < 2 THEN 0
  ELSE (256 * f[1]) + f[2] + WordSumBE(SubSeq(f, 3, Len(f)))

\* C30: the words of every composed frame of even length, read with the
\* high byte at the even offset and the check bytes included, sum to a
\* multiple of 0xFFFF.
C30_BigEndianSumZero ==
  (frame # <<>> /\ Len(frame) % 2 = 0) => WordSumBE(frame) % 65535 = 0

\* a two-byte body for which the two byte orders give different sums
C30_Witness ==
  /\ frame # <<>> /\ body = <<255, 0>> /\ Len(frame) = 12
  /\ frame[9] = 114 /\ frame[10] = 99
  /\ WordSumLE(frame) = 65535 /\ WordSumBE(frame) = 131070

\* a reply handed to the read-capture continuation that is not a capture
CaptureRefused ==
  /\ obs'.cb = "egismoc_read_capture_cb" /\ last'.error = "none"
  /\ ~("rsp_read_success_prefix" \in last'.pre
       /\ "rsp_read_success_suffix" \in last'.suf)

\* C31: a read-capture reply that is not a capture reports a
\* center-finger retry if it has the off-center prefix and suffix, else
\* the remove-finger retry about a clean sensor if it has the dirty
\* prefix, else a retry of another kind than the dirty one.
C31_RetryKinds ==
  [][CaptureRefused
       => IF "rsp_read_offcenter_prefix" \in last'.pre
             /\ "rsp_read_offcenter_suffix" \in last'.suf
            THEN obs'.retry.kind = "FP_DEVICE_RETRY_CENTER_FINGER"
          ELSE IF "rsp_read_dirty_prefix" \in last'.pre
            THEN obs'.retry = [kind |-> "FP_DEVICE_RETRY_REMOVE_FINGER",
                               msg |-> "clean"]
          ELSE obs'.retry.kind \notin {"none",
                                       "FP_DEVICE_RETRY_REMOVE_FINGER"}]_vars

\* a finger wait is posted in this step
WaitPosted == xfer.kind # "intr" /\ xfer'.kind = "intr"

\* finger-present is reported in this step
PresentReported ==
  \E i \in DOMAIN obs'.finger : obs'.finger[i] = "FP_FINGER_STATUS_PRESENT"

\* C32: a step that posts a finger wait reports finger-needed, and only
\* such a step reports it; finger-present is reported only by the step
\* that ends a pending wait, once; and the task machine leaves its
\* wait state only in a step that reports finger-present.
C32_FingerStatus ==
  [][/\ WaitPosted => obs'.finger = <<"FP_FINGER_STATUS_NEEDED">>
     /\ obs'.finger # <<>> /\ ~PresentReported => WaitPosted
     /\ PresentReported
          => /\ xfer.kind = "intr" /\ xfer'.kind # "intr"
             /\ obs'.finger = <<"FP_FINGER_STATUS_PRESENT">>
     /\ xfer.kind = "intr" /\ task' # task => PresentReported]_vars

C32_Witness ==
  /\ obs.finger = <<"FP_FINGER_STATUS_PRESENT">>
  /\ action = "enroll" /\ CurState = "ENROLL_CAPTURE_READ_RESPONSE"
  /\ xfer.kind = "send"

\* C36: a finger wait that ends with an error reports no finger-present.
C36_PresentOnlyOnSuccess ==
  [][\A error \in {"cancelled", "usb"} :
       xfer.kind = "intr"
       /\ Commit(egismoc_finger_on_sensor_cb(Completed, error))
       => ~PresentReported]_vars

\* the step ends the bulk transfer in flight with this error
SendEnds(error) ==
  xfer.kind = "send" /\ Commit(cmd_send_cb(Completed, xfer.callback, error))

\* what a continuation is given with an error
ErrorGiven(callback, error) ==
  [cb |-> callback, error |-> error, len |-> 0, pre |-> {}, suf |-> {},
   ids |-> <<>>]

\* C33: a receive is posted only by the step in which a send completes
\* without error, and that step invokes no continuation; a send that fails
\* posts no receive and gives its error to the exchange's continuation,
\* once; the step that ends a receive invokes the exchange's continuation
\* once, with the reply if it has at least the read-prefix length and with
\* an error otherwise; no other step invokes a continuation.
C33_ExchangeOnce ==
  [][/\ xfer'.kind = "recv" /\ xfer' # xfer
          => SendEnds("none") /\ obs'.calls = 0
     /\ SendEnds("usb")
          => /\ xfer'.kind # "recv" /\ obs'.calls = 1
             /\ last' = ErrorGiven(xfer.callback, "usb")
     /\ xfer.kind = "recv" /\ xfer' # xfer
          => /\ obs'.calls = 1 /\ last'.cb = xfer.callback
             /\ \/ last'.error = "none"
                     /\ last'.len >= egismoc_read_prefix_len
                \/ last' = ErrorGiven(xfer.callback, "usb")
                \/ last' = ErrorGiven(xfer.callback, "general")
     /\ obs'.calls > 0 => xfer.kind \in {"send", "recv"} /\ xfer' # xfer]_vars

C33_Witness ==
  /\ obs.calls = 1 /\ last = ErrorGiven("egismoc_list_cb", "usb")
  /\ "cmd_list" \in sent /\ xfer.kind = "none" /\ op = "delete"

\* C34: during an enroll the stage is between 0 and EGISMOC_ENROLL_TIMES
\* and counts the partial-OK reports made; commit-start has been sent only
\* if the stage is EGISMOC_ENROLL_TIMES; and an enroll that reported the
\* new print made exactly EGISMOC_ENROLL_TIMES partial-OK reports.
C34_StageBounds ==
  op = "enroll"
    => /\ stage \in 0..EGISMOC_ENROLL_TIMES
       /\ out.partial = stage
       /\ "cmd_commit_starting" \in sent => stage = EGISMOC_ENROLL_TIMES
       /\ out.print # NoFpiData => out.partial = EGISMOC_ENROLL_TIMES

C34_Witness ==
  /\ op = "enroll" /\ action = "none" /\ n_complete = 1 /\ result = "none"
  /\ out.print # NoFpiData /\ out.partial = EGISMOC_ENROLL_TIMES
  /\ "cmd_commit_starting" \in sent

\* C35: a cancel made while a bulk transfer of a command is in flight
\* leaves that transfer, the command and task machines and the operation
\* as they were; a finger wait posted after such a cancel is not
\* cancelled when posted, and it ends only by its transfer completing
\* (a finger event, a timeout or a transport error) or by a later cancel.
C35_CancelDuringExchange ==
  [][/\ Cancel /\ xfer.kind \in {"send", "recv"}
          => /\ UNCHANGED <<xfer, task, task_ssm, cmd_ssm, cmd_transfer,
                            cmd_active, action, n_complete, result, sent,
                            stage>>
             /\ out'.bulk_cancel
     /\ out.bulk_cancel /\ xfer.kind # "intr" /\ xfer'.kind = "intr"
          => ~xfer'.cancelled /\ interrupt_cancellable' = "untripped"
     /\ out.bulk_cancel /\ xfer.kind = "intr" /\ ~xfer.cancelled
          => \/ Cancel /\ xfer'.cancelled
             \/ FingerDone /\ result' # "cancelled"]_vars

\* an enroll went on to its finger wait after a cancel made during a
\* command
C35_Witness ==
  /\ out.bulk_cancel /\ op = "enroll" /\ action = "enroll"
  /\ xfer.kind = "intr" /\ ~xfer.cancelled /\ n_complete = 0
  /\ CurState = "ENROLL_CAPTURE_WAIT_FINGER" /\ stage = 1

\* C37: every byte range a decoder reads of a reply handed to it lies
\* within the received bytes and has a length that is not negative.
C37_DecodersInBounds ==
  [][obs'.calls = 1 /\ last'.error = "none"
       => \A r \in reply_reads(last'.cb, last') :
            0 <= r.lo /\ r.lo <= r.hi /\ r.hi <= last'.len]_vars

===========================================================================
